---------------------------- MODULE Spec2Model ----------------------------
(***************************************************************************)
(* A model of the knowledge graph engine of obsidian-mcp-server            *)
(* (class KnowledgeGraphService, src/src/services/DataviewService.ts,      *)
(* lines 394-711) and of the caller that hands it a note array             *)
(* (src/src/index.ts, lines 576-638).                                      *)
(*                                                                         *)
(* Strings are sequences of one-character strings, so that endsWith,       *)
(* lastIndexOf, substring and concatenation are computed, not assumed.     *)
(* An optional field (tags?, links?, backlinks?, metadata?) is a sequence  *)
(* of length 0 (undefined) or 1 (the value).                               *)
(***************************************************************************)
EXTENDS Integers, Sequences, FiniteSets, TLC

VARIABLES
    input,   \* the Note[] the caller is about to pass to updateNotes
    notes,   \* KnowledgeGraphService.notes: the Map, as its values in insertion order
    result,  \* the value returned by the last operation
    files,   \* the markdown files of a local vault, as parseNote reads them
    notesCache,  \* LocalConnector.notesCache: the Map, as its values in insertion order
    calls,   \* the graph tool calls the server has been sent, each with its position
    run      \* a getRelatedNotes or findPath in progress, statement by statement

vars == <<input, notes, result, files, notesCache, calls, run>>

---------------------------------------------------------------------------
(* Bounds of the model.                                                    *)

\* Largest maxDepth passed to getRelatedNotes.
MaxDepth == 3

\* Notes in an array of the chain family (DeepInputs).
MaxDeepNotes == 5

\* Outgoing links per note in the chain family.
MaxDeepLinks == 2

\* Outgoing links in all notes together of a vault of the link family.
MaxVaultLinks == 3

\* Notes in an array of the graph family.
MaxGraphNotes == 4

\* Tags and links in all notes together of an array of the graph family.
MaxGraphItems == 2

\* Notes in an array of the many-notes family: one more than analyzeGraph lists.
MaxManyNotes == 11

\* Outgoing links in all notes together of an array of the many-notes family.
MaxManyLinks == 4

\* Notes in an array of the titled family (SuggestInputs).
MaxSuggestNotes == 3

\* Tags in all notes together of an array of the titled family.
MaxSuggestTags == 3

\* Largest limit passed to suggestRelatedNotes, beside its default.
MaxLimit == 2

\* Outgoing links in all notes together of a vault whose related notes are asked.
MaxRelatedLinks == 2

\* Outgoing links in all notes together of a vault queried by several operations.
MaxFewLinks == 1

\* Notes in an array of the replaced family (UpdateInputs).
MaxUpdateNotes == 3

\* Notes in an array of the named family (ResolveInputs).
MaxResolveNotes == 3

\* Outgoing links in all notes together of a vault whose queries are followed
\* statement by statement.
MaxRunLinks == 2

\* Outgoing links of a note of a vault whose files change.
MaxCacheLinks == 1

---------------------------------------------------------------------------
(* Strings.                                                                *)

None == <<>>

Some(x) == <<x>>

IsSome(o) == Len(o) = 1

Val(o) == o[1]

\* o?.length || 0
LenOrZero(o) == IF IsSome(o) THEN Len(Val(o)) ELSE 0

SeqToSet(s) == {s[i] : i \in 1..Len(s)}

endsWith(s, suffix) ==
    /\ Len(suffix) <= Len(s)
    /\ SubSeq(s, Len(s) - Len(suffix) + 1, Len(s)) = suffix

startsWith(s, prefix) ==
    /\ Len(prefix) <= Len(s)
    /\ SubSeq(s, 1, Len(prefix)) = prefix

\* String.prototype.lastIndexOf for a single character, 0-based; -1 when absent.
lastIndexOf(s, ch) ==
    LET hits == {i \in 1..Len(s) : s[i] = ch}
    IN  IF hits = {} THEN -1
        ELSE (CHOOSE i \in hits : \A j \in hits : j <= i) - 1

\* String.prototype.substring(0, end), end 0-based and exclusive.
substring0(s, end) == SubSeq(s, 1, end)

DotMd == <<".", "m", "d">>

Slash == <<"/">>

TagPrefix == <<"t", "a", "g", ":">>

FolderPrefix == <<"f", "o", "l", "d", "e", "r", ":">>

RootFolder == <<".">>

---------------------------------------------------------------------------
(* The Map<string, Note>.                                                  *)

keys(ns) == {ns[i].path : i \in 1..Len(ns)}

has(ns, path) == \E i \in 1..Len(ns) : ns[i].path = path

get(ns, path) == ns[CHOOSE i \in 1..Len(ns) : ns[i].path = path]

\* Map.prototype.set: a new key is appended, an existing key keeps its place.
mapSet(ns, note) ==
    IF has(ns, note.path)
    THEN [i \in 1..Len(ns) |-> IF ns[i].path = note.path THEN note ELSE ns[i]]
    ELSE Append(ns, note)

RECURSIVE setAll(_, _)
setAll(ns, arr) ==
    IF arr = <<>> THEN ns ELSE setAll(mapSet(ns, Head(arr)), Tail(arr))

\* updateNotes: clear the Map, then set every note of the array under its path.
updateNotes(arr) == setAll(<<>>, arr)

---------------------------------------------------------------------------
(* Helper methods.                                                         *)

normalize(linkTarget) ==
    IF endsWith(linkTarget, DotMd) THEN linkTarget ELSE linkTarget \o DotMd

titleMatches(ns, linkTarget) ==
    {i \in 1..Len(ns) :
        \/ ns[i].title = linkTarget
        \/ endsWith(ns[i].path, Slash \o normalize(linkTarget))}

\* Mutant of resolveNotePath: the scan by title and suffix comes before the exact
\* match.
resolveNotePathByTitleFirst(ns, linkTarget) ==
    LET normalized == normalize(linkTarget)
        hits == titleMatches(ns, linkTarget)
    IN  IF hits # {}
        THEN ns[CHOOSE i \in hits : \A j \in hits : i <= j].path
        ELSE normalized

resolveNotePath(ns, linkTarget) ==
    LET normalized == normalize(linkTarget)
        hits == titleMatches(ns, linkTarget)
    IN  IF has(ns, normalized) THEN normalized
        ELSE IF hits # {}
             THEN ns[CHOOSE i \in hits : \A j \in hits : i <= j].path
             ELSE normalized

getFolder(path) ==
    LET lastSlash == lastIndexOf(path, "/")
    IN  IF lastSlash = -1 THEN RootFolder ELSE substring0(path, lastSlash)

---------------------------------------------------------------------------
(* getRelatedNotes.                                                        *)

\* Mutant of neighbours: backlinks are not followed.
neighboursByLinksOnly(ns, note) ==
    IF IsSome(note.links)
    THEN [i \in 1..Len(Val(note.links)) |->
              resolveNotePath(ns, Val(note.links)[i].target)]
    ELSE <<>>

\* The ids traverse recurses into from a note: resolved links, then backlink sources.
neighbours(ns, note) ==
    (IF IsSome(note.links)
     THEN [i \in 1..Len(Val(note.links)) |->
               resolveNotePath(ns, Val(note.links)[i].target)]
     ELSE <<>>)
    \o
    (IF IsSome(note.backlinks)
     THEN [i \in 1..Len(Val(note.backlinks)) |-> Val(note.backlinks)[i].source]
     ELSE <<>>)

RECURSIVE traverse(_, _, _, _, _)
RECURSIVE traverseEach(_, _, _, _, _)

\* Mutant of traverse: the depth test before related.add is dropped, so the start
\* note is added too.
traverseAddsStart(ns, maxDepth, path, depth, st) ==
    IF depth > maxDepth \/ path \in st.visited THEN st
    ELSE LET st1 == [st EXCEPT !.visited = @ \cup {path}]
         IN  IF ~has(ns, path) THEN st1
             ELSE traverseEach(ns, maxDepth, neighbours(ns, get(ns, path)), depth + 1,
                               [st1 EXCEPT !.related = Append(@, path)])

\* st = [related, visited]: the two Sets the closure shares, related in insertion order.
traverse(ns, maxDepth, path, depth, st) ==
    IF depth > maxDepth \/ path \in st.visited THEN st
    ELSE LET st1 == [st EXCEPT !.visited = @ \cup {path}]
         IN  IF ~has(ns, path) THEN st1
             ELSE LET st2 == IF depth > 0
                             THEN [st1 EXCEPT !.related = Append(@, path)]
                             ELSE st1
                  IN  traverseEach(ns, maxDepth, neighbours(ns, get(ns, path)),
                                   depth + 1, st2)

traverseEach(ns, maxDepth, targets, depth, st) ==
    IF targets = <<>> THEN st
    ELSE traverseEach(ns, maxDepth, Tail(targets), depth,
                      traverse(ns, maxDepth, Head(targets), depth, st))

\* Mutant of getRelatedNotes: the id given is resolved as a link target is.
getRelatedNotesOfResolved(ns, notePath, maxDepth) ==
    LET st == traverse(ns, maxDepth, resolveNotePath(ns, notePath), 0,
                       [related |-> <<>>, visited |-> {}])
        found == SelectSeq(st.related, LAMBDA p : has(ns, p))
    IN  [i \in 1..Len(found) |-> get(ns, found[i])]

\* The Note[] returned: the related paths mapped to their notes, undefined dropped.
getRelatedNotes(ns, notePath, maxDepth) ==
    LET st == traverse(ns, maxDepth, notePath, 0, [related |-> <<>>, visited |-> {}])
        found == SelectSeq(st.related, LAMBDA p : has(ns, p))
    IN  [i \in 1..Len(found) |-> get(ns, found[i])]

---------------------------------------------------------------------------
(* findPath.                                                               *)

RECURSIVE pushLinks(_, _, _, _, _)
RECURSIVE pushLinksFront(_, _, _, _, _)

\* Mutant of pushLinks: entries are put at the head of the queue (unshift for push),
\* which turns the search depth-first.
pushLinksFront(ns, links, route, visited, queue) ==
    IF links = <<>> THEN queue
    ELSE LET target == resolveNotePath(ns, Head(links).target)
         IN  pushLinksFront(ns, Tail(links), route, visited,
                            IF target \notin visited
                            THEN <<[path |-> target, route |-> Append(route, target)]>>
                                     \o queue
                            ELSE queue)

\* The queue entries pushed while expanding one note.
pushLinks(ns, links, route, visited, queue) ==
    IF links = <<>> THEN queue
    ELSE LET target == resolveNotePath(ns, Head(links).target)
         IN  pushLinks(ns, Tail(links), route, visited,
                       IF target \notin visited
                       THEN Append(queue, [path |-> target,
                                           route |-> Append(route, target)])
                       ELSE queue)

RECURSIVE bfs(_, _, _, _)
bfs(ns, toPath, queue, visited) ==
    IF queue = <<>> THEN None
    ELSE LET path == Head(queue).path
             route == Head(queue).route
             rest == Tail(queue)
         IN  IF path = toPath THEN Some(route)
             ELSE IF path \in visited THEN bfs(ns, toPath, rest, visited)
             ELSE IF ~has(ns, path) THEN bfs(ns, toPath, rest, visited \cup {path})
             ELSE LET note == get(ns, path)
                      visited1 == visited \cup {path}
                  IN  bfs(ns, toPath,
                          IF IsSome(note.links)
                          THEN pushLinks(ns, Val(note.links), route, visited1, rest)
                          ELSE rest,
                          visited1)

\* Every note with its backlinks appended to its links, as links to their sources.
backlinksAsLinks(ns) ==
    [i \in 1..Len(ns) |->
        [ns[i] EXCEPT !.links =
            IF IsSome(ns[i].backlinks)
            THEN Some((IF IsSome(ns[i].links) THEN Val(ns[i].links) ELSE <<>>)
                      \o [j \in 1..Len(Val(ns[i].backlinks)) |->
                              [source |-> ns[i].path,
                               target |-> Val(ns[i].backlinks)[j].source,
                               type |-> "internal"]])
            ELSE ns[i].links]]

\* Mutant of findPath: the search follows backlinks as well, as getRelatedNotes does.
findPathAlongBacklinks(ns, fromPath, toPath) ==
    bfs(backlinksAsLinks(ns), toPath, <<[path |-> fromPath, route |-> <<fromPath>>]>>, {})

\* Mutant of findPath: arrival is tested for the linked notes only, never for the
\* start, so that a path to oneself has to go round a cycle.
findPathLeavesStart(ns, fromPath, toPath) ==
    IF has(ns, fromPath) /\ IsSome(get(ns, fromPath).links)
    THEN bfs(ns, toPath,
             pushLinks(ns, Val(get(ns, fromPath).links), <<fromPath>>, {}, <<>>), {})
    ELSE None

\* string[] | null: Some(route) or None.
findPath(ns, fromPath, toPath) ==
    bfs(ns, toPath, <<[path |-> fromPath, route |-> <<fromPath>>]>>, {})

---------------------------------------------------------------------------
(* buildGraph.                                                             *)

\* Mutant of noteNode: the node is identified by the note's title.
noteNodeByTitle(note) ==
    [id |-> note.title, title |-> note.title, type |-> "note",
     metadata |-> Some([tags |-> note.tags,
                        wordCount |-> Len(note.content),
                        linkCount |-> LenOrZero(note.links)])]

noteNode(note) ==
    [id |-> note.path, title |-> note.title, type |-> "note",
     metadata |-> Some([tags |-> note.tags,
                        wordCount |-> Len(note.content),
                        linkCount |-> LenOrZero(note.links)])]

tagId(tag) == TagPrefix \o tag

folderId(folder) == FolderPrefix \o folder

\* Mutant of linkEdges: an edge equal to one already emitted for the note is merged
\* into it.
linkEdgesMerged(ns, note) ==
    IF IsSome(note.links)
    THEN LET all == [i \in 1..Len(Val(note.links)) |->
                        [source |-> note.path,
                         target |-> resolveNotePath(ns, Val(note.links)[i].target),
                         type |-> Val(note.links)[i].type,
                         weight |-> 1]]
             first == {i \in 1..Len(all) : \A j \in 1..(i - 1) : all[j] # all[i]}
         IN  [i \in 1..Cardinality(first) |->
                 all[CHOOSE k \in first : Cardinality({m \in first : m <= k}) = i]]
    ELSE <<>>

linkEdges(ns, note) ==
    IF IsSome(note.links)
    THEN [i \in 1..Len(Val(note.links)) |->
              [source |-> note.path,
               target |-> resolveNotePath(ns, Val(note.links)[i].target),
               type |-> Val(note.links)[i].type,
               weight |-> 1]]
    ELSE <<>>

\* g = [nodes, edges, tagNodes, folderNodes]; the two Maps are kept as their key sets.
RECURSIVE addTags(_, _, _)
addTags(g, note, tags) ==
    IF tags = <<>> THEN g
    ELSE LET tag == Head(tags)
             g1 == IF tag \notin g.tagNodes
                   THEN [g EXCEPT !.tagNodes = @ \cup {tag},
                                  !.nodes = Append(@, [id |-> tagId(tag), title |-> tag,
                                                       type |-> "tag", metadata |-> None])]
                   ELSE g
         IN  addTags([g1 EXCEPT !.edges = Append(@, [source |-> note.path,
                                                     target |-> tagId(tag),
                                                     type |-> "tagged-with",
                                                     weight |-> 1])],
                     note, Tail(tags))

\* Mutant of addFolder: the in-folder edge is emitted outside the test that guards
\* the folder node, so a note at the root gets an edge to folder:. with no node.
addFolderEdgeAlways(g, note) ==
    LET folder == getFolder(note.path)
        g1 == IF folder # <<>> /\ folder # RootFolder /\ folder \notin g.folderNodes
              THEN [g EXCEPT !.folderNodes = @ \cup {folder},
                             !.nodes = Append(@, [id |-> FolderPrefix \o folder,
                                                  title |-> folder,
                                                  type |-> "folder",
                                                  metadata |-> None])]
              ELSE g
    IN  [g1 EXCEPT !.edges = Append(@, [source |-> note.path,
                                        target |-> FolderPrefix \o folder,
                                        type |-> "in-folder",
                                        weight |-> 1])]

addFolder(g, note) ==
    LET folder == getFolder(note.path)
    IN  IF folder # <<>> /\ folder # RootFolder
        THEN LET g1 == IF folder \notin g.folderNodes
                       THEN [g EXCEPT !.folderNodes = @ \cup {folder},
                                      !.nodes = Append(@, [id |-> folderId(folder),
                                                           title |-> folder,
                                                           type |-> "folder",
                                                           metadata |-> None])]
                       ELSE g
             IN  [g1 EXCEPT !.edges = Append(@, [source |-> note.path,
                                                 target |-> folderId(folder),
                                                 type |-> "in-folder",
                                                 weight |-> 1])]
        ELSE g

\* One iteration of the loop over this.notes.values().
addNote(ns, g, note) ==
    LET g1 == [g EXCEPT !.nodes = Append(@, noteNode(note)),
                        !.edges = @ \o linkEdges(ns, note)]
        g2 == IF IsSome(note.tags) THEN addTags(g1, note, Val(note.tags)) ELSE g1
    IN  addFolder(g2, note)

RECURSIVE addNotes(_, _, _)
addNotes(ns, g, rest) ==
    IF rest = <<>> THEN g ELSE addNotes(ns, addNote(ns, g, Head(rest)), Tail(rest))

buildGraph(ns) ==
    LET g == addNotes(ns, [nodes |-> <<>>, edges |-> <<>>,
                           tagNodes |-> {}, folderNodes |-> {}], ns)
    IN  [nodes |-> g.nodes, edges |-> g.edges]

---------------------------------------------------------------------------
(* analyzeGraph.                                                           *)

\* slice(0, 10)
TopN == 10

\* Mutant of linkCount: backlinks are not counted.
linkCountOutgoingOnly(note) == LenOrZero(note.links)

linkCount(note) == LenOrZero(note.links) + LenOrZero(note.backlinks)

\* Array.from(connectionCounts.entries()): one [id, connections] per note, in Map order.
connectionCounts(ns) ==
    [i \in 1..Len(ns) |-> [id |-> ns[i].path, connections |-> linkCount(ns[i])]]

\* Array.prototype.sort with (a, b) => b[1] - a[1]: descending and stable, so an
\* entry goes after every entry already placed that has at least its count.
RECURSIVE sortByConnections(_, _)
RECURSIVE sortUnstable(_, _)

\* Mutant of sortByConnections: an entry goes before the entries of equal count, as
\* a sort that is not stable may place it.
sortUnstable(sorted, rest) ==
    IF rest = <<>> THEN sorted
    ELSE LET e == Head(rest)
             before == SelectSeq(sorted, LAMBDA x : x.connections > e.connections)
             after == SelectSeq(sorted, LAMBDA x : x.connections <= e.connections)
         IN  sortUnstable(before \o <<e>> \o after, Tail(rest))

sortByConnections(sorted, rest) ==
    IF rest = <<>> THEN sorted
    ELSE LET e == Head(rest)
             before == SelectSeq(sorted, LAMBDA x : x.connections >= e.connections)
             after == SelectSeq(sorted, LAMBDA x : x.connections < e.connections)
         IN  sortByConnections(before \o <<e>> \o after, Tail(rest))

slice0(s, n) == SubSeq(s, 1, IF Len(s) < n THEN Len(s) ELSE n)

orphans(ns) ==
    LET zero == SelectSeq(ns, LAMBDA n : linkCount(n) = 0)
    IN  [i \in 1..Len(zero) |-> zero[i].path]

\* Mutant of analyzeGraph: totalNodes counts the nodes of every kind.
analyzeGraphCountsEveryNode(ns) ==
    LET graph == buildGraph(ns)
    IN  [totalNodes |-> Len(graph.nodes),
         totalEdges |-> Len(graph.edges),
         mostConnectedNodes |-> slice0(sortByConnections(<<>>, connectionCounts(ns)), TopN),
         orphanNotes |-> orphans(ns)]

analyzeGraph(ns) ==
    LET graph == buildGraph(ns)
    IN  [totalNodes |-> Len(SelectSeq(graph.nodes, LAMBDA n : n.type = "note")),
         totalEdges |-> Len(graph.edges),
         mostConnectedNodes |-> slice0(sortByConnections(<<>>, connectionCounts(ns)), TopN),
         orphanNotes |-> orphans(ns)]

---------------------------------------------------------------------------
(* suggestRelatedNotes.                                                    *)

Upper == <<"A", "B", "C", "D", "E", "F", "G", "H", "I", "J", "K", "L", "M",
           "N", "O", "P", "Q", "R", "S", "T", "U", "V", "W", "X", "Y", "Z">>

Lower == <<"a", "b", "c", "d", "e", "f", "g", "h", "i", "j", "k", "l", "m",
           "n", "o", "p", "q", "r", "s", "t", "u", "v", "w", "x", "y", "z">>

lowerOf == [c \in SeqToSet(Upper) |-> Lower[CHOOSE k \in 1..Len(Upper) : Upper[k] = c]]

\* String.prototype.toLowerCase
toLowerCase(s) ==
    [i \in 1..Len(s) |-> IF s[i] \in DOMAIN lowerOf THEN lowerOf[s[i]] ELSE s[i]]

Whitespace == {" "}

\* String.prototype.split(/\s+/): the pieces between the maximal runs of
\* whitespace; a run at either end leaves an empty piece there.
RECURSIVE splitRest(_, _, _)
splitRest(s, word, afterSpace) ==
    IF s = <<>> THEN <<word>>
    ELSE IF Head(s) \in Whitespace
         THEN IF afterSpace THEN splitRest(Tail(s), word, TRUE)
              ELSE <<word>> \o splitRest(Tail(s), <<>>, TRUE)
         ELSE splitRest(Tail(s), Append(word, Head(s)), FALSE)

split(s) == splitRest(s, <<>>, FALSE)

\* Array.prototype.includes
includes(arr, x) == \E i \in 1..Len(arr) : arr[i] = x

\* Mutant of addScore: a later pass replaces the score of an earlier one.
addScoreOverwrites(scores, path, points) ==
    IF \E i \in 1..Len(scores) : scores[i].path = path
    THEN [i \in 1..Len(scores) |->
             IF scores[i].path = path
             THEN [scores[i] EXCEPT !.score = points]
             ELSE scores[i]]
    ELSE Append(scores, [path |-> path, score |-> points])

\* scores.set(path, (scores.get(path) || 0) + points); a Map keeps a key where it
\* was first inserted.
addScore(scores, path, points) ==
    IF \E i \in 1..Len(scores) : scores[i].path = path
    THEN [i \in 1..Len(scores) |->
             IF scores[i].path = path
             THEN [scores[i] EXCEPT !.score = @ + points]
             ELSE scores[i]]
    ELSE Append(scores, [path |-> path, score |-> points])

TagPoints == 10

WordPoints == 5

FolderPoints == 3

MinWordLength == 3

\* The shared-tags pass over this.notes.values().
RECURSIVE scoreTags(_, _, _)
scoreTags(note, scores, rest) ==
    IF rest = <<>> THEN scores
    ELSE LET otherNote == Head(rest)
             sharedTags == IF IsSome(otherNote.tags)
                           THEN SelectSeq(Val(note.tags),
                                          LAMBDA tag : includes(Val(otherNote.tags), tag))
                           ELSE <<>>
         IN  IF otherNote.path # note.path /\ Len(sharedTags) > 0
             THEN scoreTags(note,
                            addScore(scores, otherNote.path, Len(sharedTags) * TagPoints),
                            Tail(rest))
             ELSE scoreTags(note, scores, Tail(rest))

\* Mutant of commonWords: the length of a word is not tested.
commonWordsOfAnyLength(noteWords, otherNote) ==
    SelectSeq(split(toLowerCase(otherNote.title)), LAMBDA word : word \in noteWords)

commonWords(noteWords, otherNote) ==
    SelectSeq(split(toLowerCase(otherNote.title)),
              LAMBDA word : word \in noteWords /\ Len(word) > MinWordLength)

\* The title-words pass.
RECURSIVE scoreWords(_, _, _, _)
scoreWords(notePath, noteWords, scores, rest) ==
    IF rest = <<>> THEN scores
    ELSE LET otherNote == Head(rest)
             common == commonWords(noteWords, otherNote)
         IN  IF otherNote.path # notePath /\ Len(common) > 0
             THEN scoreWords(notePath, noteWords,
                             addScore(scores, otherNote.path, Len(common) * WordPoints),
                             Tail(rest))
             ELSE scoreWords(notePath, noteWords, scores, Tail(rest))

\* The folder pass.
RECURSIVE scoreFolder(_, _, _, _)
RECURSIVE scoreFolderWithSelf(_, _, _, _)

\* Mutant of scoreFolder: the note itself is not skipped.
scoreFolderWithSelf(notePath, folder, scores, rest) ==
    IF rest = <<>> THEN scores
    ELSE LET otherNote == Head(rest)
         IN  IF getFolder(otherNote.path) = folder
             THEN scoreFolderWithSelf(notePath, folder,
                                      addScore(scores, otherNote.path, FolderPoints),
                                      Tail(rest))
             ELSE scoreFolderWithSelf(notePath, folder, scores, Tail(rest))

scoreFolder(notePath, folder, scores, rest) ==
    IF rest = <<>> THEN scores
    ELSE LET otherNote == Head(rest)
         IN  IF otherNote.path # notePath /\ getFolder(otherNote.path) = folder
             THEN scoreFolder(notePath, folder,
                              addScore(scores, otherNote.path, FolderPoints), Tail(rest))
             ELSE scoreFolder(notePath, folder, scores, Tail(rest))

\* Array.prototype.sort with (a, b) => b.score - a.score: descending and stable.
RECURSIVE sortByScore(_, _)
RECURSIVE sortByScoreUnstable(_, _)

\* Mutant of sortByScore: an entry goes before the entries of equal score.
sortByScoreUnstable(sorted, rest) ==
    IF rest = <<>> THEN sorted
    ELSE LET e == Head(rest)
             before == SelectSeq(sorted, LAMBDA x : x.score > e.score)
             after == SelectSeq(sorted, LAMBDA x : x.score <= e.score)
         IN  sortByScoreUnstable(before \o <<e>> \o after, Tail(rest))

sortByScore(sorted, rest) ==
    IF rest = <<>> THEN sorted
    ELSE LET e == Head(rest)
             before == SelectSeq(sorted, LAMBDA x : x.score >= e.score)
             after == SelectSeq(sorted, LAMBDA x : x.score < e.score)
         IN  sortByScore(before \o <<e>> \o after, Tail(rest))

\* The three passes: Array.from(scores.entries()).
accumulate(ns, note) ==
    LET s1 == IF IsSome(note.tags) THEN scoreTags(note, <<>>, ns) ELSE <<>>
        s2 == scoreWords(note.path, SeqToSet(split(toLowerCase(note.title))), s1, ns)
    IN  scoreFolder(note.path, getFolder(note.path), s2, ns)

\* Mutant of suggestRelatedNotes: the list is cut before it is sorted.
suggestSliceThenSort(ns, notePath, limit) ==
    IF ~has(ns, notePath) THEN <<>>
    ELSE sortByScore(<<>>, slice0(accumulate(ns, get(ns, notePath)), limit))

suggestRelatedNotes(ns, notePath, limit) ==
    IF ~has(ns, notePath) THEN <<>>
    ELSE slice0(sortByScore(<<>>, accumulate(ns, get(ns, notePath))), limit)

---------------------------------------------------------------------------
(* getNotesByTag, getNotesByFolder, getAllTags.                            *)

\* The arrays of an array, joined.
RECURSIVE flatten(_)
flatten(ss) == IF ss = <<>> THEN <<>> ELSE Head(ss) \o flatten(Tail(ss))

\* filter(note => note.tags?.includes(tag))
getNotesByTag(ns, tag) ==
    SelectSeq(ns, LAMBDA note : IsSome(note.tags) /\ includes(Val(note.tags), tag))

getNotesByFolder(ns, folder) ==
    SelectSeq(ns, LAMBDA note : \/ startsWith(note.path, folder \o Slash)
                                \/ getFolder(note.path) = folder)

\* tagCounts.set(tag, (tagCounts.get(tag) || 0) + 1)
countTag(tagCounts, tag) ==
    IF \E i \in 1..Len(tagCounts) : tagCounts[i].tag = tag
    THEN [i \in 1..Len(tagCounts) |->
             IF tagCounts[i].tag = tag
             THEN [tagCounts[i] EXCEPT !.count = @ + 1]
             ELSE tagCounts[i]]
    ELSE Append(tagCounts, [tag |-> tag, count |-> 1])

RECURSIVE countTags(_, _)
countTags(tagCounts, tags) ==
    IF tags = <<>> THEN tagCounts
    ELSE countTags(countTag(tagCounts, Head(tags)), Tail(tags))

\* Array.prototype.sort with (a, b) => b.count - a.count: descending and stable.
RECURSIVE sortByCount(_, _)
sortByCount(sorted, rest) ==
    IF rest = <<>> THEN sorted
    ELSE LET e == Head(rest)
             before == SelectSeq(sorted, LAMBDA x : x.count >= e.count)
             after == SelectSeq(sorted, LAMBDA x : x.count < e.count)
         IN  sortByCount(before \o <<e>> \o after, Tail(rest))

getAllTags(ns) ==
    sortByCount(<<>>,
                countTags(<<>>, flatten([i \in 1..Len(ns) |->
                                            IF IsSome(ns[i].tags)
                                            THEN Val(ns[i].tags) ELSE <<>>])))

---------------------------------------------------------------------------
(* The arrays a caller passes to updateNotes.                              *)

Letters == <<"a", "b", "c", "d", "e", "f", "g", "h", "i", "j", "k", "l", "m", "n">>

Name(i) == <<Letters[i]>>

link(source, target, type) == [source |-> source, target |-> target, type |-> type]

\* All sequences over S of length at most n.
SeqsUpTo(S, n) == UNION {[1..k -> S] : k \in 0..n}

\* parseNote leaves links (and tags) undefined when there are none.
optional(s) == IF s = <<>> THEN None ELSE Some(s)

\* The chain family: note i is <letter i>.md and links, by bare name as in
\* [[b]], to at most MaxDeepLinks later notes, in their order; no note carries
\* tags or backlinks.
deepNote(i, targets) ==
    [path |-> Name(i) \o DotMd, title |-> Name(i), content |-> <<>>,
     tags |-> None,
     links |-> optional([j \in 1..Len(targets) |->
                            link(Name(i) \o DotMd, Name(targets[j]), "internal")]),
     backlinks |-> None]

\* The elements of a set of numbers, ascending.
RECURSIVE ascending(_)
ascending(S) ==
    IF S = {} THEN <<>>
    ELSE LET m == CHOOSE x \in S : \A y \in S : x <= y
         IN  <<m>> \o ascending(S \ {m})

RECURSIVE deepTails(_, _)
deepTails(i, k) ==
    IF i > k THEN {<<>>}
    ELSE {<<deepNote(i, ascending(targets))>> \o rest :
              targets \in {T \in SUBSET ((i + 1)..k) : Cardinality(T) <= MaxDeepLinks},
              rest \in deepTails(i + 1, k)}

DeepInputs(maxNotes) == UNION {deepTails(1, k) : k \in 1..maxNotes}

\* String.prototype.replace(search, '') for a string search: the first occurrence
\* is removed.
removeFirst(s, search) ==
    LET at == {i \in 1..(Len(s) - Len(search) + 1) :
                   SubSeq(s, i, i + Len(search) - 1) = search}
    IN  IF at = {} THEN s
        ELSE LET i == CHOOSE x \in at : \A y \in at : x <= y
             IN  SubSeq(s, 1, i - 1) \o SubSeq(s, i + Len(search), Len(s))

\* LocalConnector.getBacklinks: every link of a cached note whose raw target is the
\* note's path, or its path with '.md' removed.
getBacklinks(cache, notePath) ==
    LET noteTitle == removeFirst(notePath, DotMd)
    IN  flatten([i \in 1..Len(cache) |->
                    IF IsSome(cache[i].links)
                    THEN SelectSeq(Val(cache[i].links),
                                   LAMBDA l : l.target = noteTitle \/ l.target = notePath)
                    ELSE <<>>])

\* LocalConnector.refreshCache, after the files are parsed: every note gets backlinks.
withBacklinks(cache) ==
    [i \in 1..Len(cache) |->
        [cache[i] EXCEPT !.backlinks = Some(getBacklinks(cache, cache[i].path))]]

\* The link family: the files a.md, b.md and d/c.md (titled T), as parseNote
\* returns them, with at most MaxVaultLinks links in all; then either as they are
\* (no backlinks) or as the connector's cache holds them (backlinks filled in).
LinkFiles ==
    << [path |-> <<"a">> \o DotMd, title |-> <<"a">>],
       [path |-> <<"b">> \o DotMd, title |-> <<"b">>],
       [path |-> <<"d", "/", "c">> \o DotMd, title |-> <<"T">>] >>

\* Raw link targets: a full path, a bare name, a title, and the name of no note.
LinkTargets == {<<"a">> \o DotMd, <<"b">>, <<"T">>, <<"z">>}

parsedNote(file, targets) ==
    [path |-> file.path, title |-> file.title, content |-> <<>>,
     tags |-> None,
     links |-> optional([j \in 1..Len(targets) |->
                            link(file.path, targets[j], "internal")]),
     backlinks |-> None]

RECURSIVE linkTails(_, _, _)
linkTails(i, k, budget) ==
    IF i > k THEN {<<>>}
    ELSE UNION {{<<parsedNote(LinkFiles[i], targets)>> \o rest :
                     rest \in linkTails(i + 1, k, budget - Len(targets))} :
                targets \in SeqsUpTo(LinkTargets, budget)}

LinkVaults(maxLinks) == UNION {linkTails(1, k, maxLinks) : k \in 0..Len(LinkFiles)}

LinkInputs(maxLinks) ==
    LET vaults == LinkVaults(maxLinks)
    IN  vaults \cup {withBacklinks(v) : v \in vaults}

\* The graph family: the first notes, up to MaxGraphNotes, of an array in which
\* the fourth note repeats the path of the first, carrying tags and links, at most
\* MaxGraphItems in all. tag:t.md is a file at the root of the vault.
GraphFiles ==
    << [path |-> <<"a">> \o DotMd, title |-> <<"a">>],
       [path |-> <<"d", "/", "b">> \o DotMd, title |-> <<"b">>],
       [path |-> TagPrefix \o <<"t">> \o DotMd, title |-> <<"x">>],
       [path |-> <<"a">> \o DotMd, title |-> <<"a", "2">>],
       [path |-> <<"d", "/", "e">> \o DotMd, title |-> <<"e">>],
       [path |-> <<"f", "/", "g">> \o DotMd, title |-> <<"g">>] >>

GraphTags == {<<"t">>, <<"t">> \o DotMd}

\* [[b]] and ![[b]] name d/b.md when it is there; [[z]] names no note.
GraphLinks ==
    { [target |-> <<"b">>, type |-> "internal"],
      [target |-> <<"b">>, type |-> "embed"],
      [target |-> <<"z">>, type |-> "internal"] }

graphNote(file, tags, links) ==
    [path |-> file.path, title |-> file.title, content |-> <<"x">>,
     tags |-> optional(tags),
     links |-> optional([j \in 1..Len(links) |->
                            link(file.path, links[j].target, links[j].type)]),
     backlinks |-> None]

RECURSIVE graphTails(_, _, _)
graphTails(i, k, budget) ==
    IF i > k THEN {<<>>}
    ELSE UNION {UNION {{<<graphNote(GraphFiles[i], tags, links)>> \o rest :
                           rest \in graphTails(i + 1, k, budget - Len(tags) - Len(links))} :
                       links \in SeqsUpTo(GraphLinks, budget - Len(tags))} :
                tags \in SeqsUpTo(GraphTags, budget)}

GraphInputs(maxNotes, maxItems) ==
    UNION {graphTails(1, k, maxItems) : k \in 0..maxNotes}

\* The many-notes family: up to MaxManyNotes notes <letter>.md, each with some
\* number of links [[z]], at most MaxManyLinks in all; no tags, no backlinks.
manyNote(i, n) ==
    [path |-> Name(i) \o DotMd, title |-> Name(i), content |-> <<>>,
     tags |-> None,
     links |-> optional([j \in 1..n |-> link(Name(i) \o DotMd, <<"z">>, "internal")]),
     backlinks |-> None]

RECURSIVE manyTails(_, _, _)
manyTails(i, k, budget) ==
    IF i > k THEN {<<>>}
    ELSE UNION {{<<manyNote(i, n)>> \o rest : rest \in manyTails(i + 1, k, budget - n)} :
                n \in 0..budget}

ManyInputs(maxNotes, maxLinks) ==
    UNION {manyTails(1, k, maxLinks) : k \in 0..maxNotes}

\* The titled family: at most MaxSuggestNotes of the notes below, in their order,
\* with at most MaxSuggestTags tags in all; no links. The tags of a note are
\* distinct, as extractTags collects them in a Set.
SuggestFiles ==
    << [path |-> <<"X">>,
        title |-> <<"P", "r", "o", "j", "e", "c", "t", " ", "P", "l", "a", "n">>],
       [path |-> <<"Y">>,
        title |-> <<"P", "r", "o", "j", "e", "c", "t", " ", "N", "o", "t", "e", "s">>],
       [path |-> <<"d", "/", "Z">> \o DotMd,
        title |-> <<"p", "l", "a", "n", " ", " ", "p", "l", "a", "n">>],
       [path |-> <<"d", "/", "W">> \o DotMd,
        title |-> <<"O", "l", "d", " ", "N", "o", "t", "e", "s", " ">>],
       [path |-> <<"V">> \o DotMd,
        title |-> <<"O", "l", "d", " ", "M", "a", "p">>] >>

SuggestTags == { <<>>, << <<"t", "2">> >>, << <<"t", "1">>, <<"t", "2">> >> }

suggestNote(file, tags) ==
    [path |-> file.path, title |-> file.title, content |-> <<>>,
     tags |-> optional(tags), links |-> None, backlinks |-> None]

RECURSIVE suggestTails(_, _, _)
suggestTails(i, room, budget) ==
    IF i > Len(SuggestFiles) THEN {<<>>}
    ELSE suggestTails(i + 1, room, budget)
         \cup (IF room = 0 THEN {}
               ELSE UNION {{<<suggestNote(SuggestFiles[i], tags)>> \o rest :
                               rest \in suggestTails(i + 1, room - 1, budget - Len(tags))} :
                           tags \in {t \in SuggestTags : Len(t) <= budget}})

SuggestInputs(maxNotes, maxTags) == suggestTails(1, maxNotes, maxTags)

\* The replaced family: notes a.md and b.md, and a second note under a.md with
\* another title and tag; an array is any list of at most MaxUpdateNotes of
\* them, so a path may repeat in either order.
UpdateFiles ==
    { [path |-> <<"a">> \o DotMd, title |-> <<"a">>, tags |-> << <<"t">> >>],
      [path |-> <<"a">> \o DotMd, title |-> <<"A", "2">>, tags |-> << <<"u">> >>],
      [path |-> <<"b">> \o DotMd, title |-> <<"b">>, tags |-> <<>>] }

updateNote(file) ==
    [path |-> file.path, title |-> file.title, content |-> <<>>,
     tags |-> optional(file.tags), links |-> None, backlinks |-> None]

UpdateInputs(maxNotes) == SeqsUpTo({updateNote(f) : f \in UpdateFiles}, maxNotes)

\* The named family: b.md, a note in a folder titled b, and two notes c.md in
\* folders, one of them titled c; an array is at most MaxResolveNotes of them in
\* any order, none twice.
ResolveFiles ==
    { [path |-> <<"b">> \o DotMd, title |-> <<"b">>, tags |-> <<>>],
      [path |-> <<"d", "/", "x">> \o DotMd, title |-> <<"b">>, tags |-> <<>>],
      [path |-> <<"e", "/", "c">> \o DotMd, title |-> <<"Q">>, tags |-> <<>>],
      [path |-> <<"d", "/", "c">> \o DotMd, title |-> <<"c">>, tags |-> <<>>] }

ResolveInputs(maxNotes) ==
    {arr \in SeqsUpTo({updateNote(f) : f \in ResolveFiles}, maxNotes) :
        \A i, j \in 1..Len(arr) : arr[i] = arr[j] => i = j}

\* Link targets as written in notes: bare names, names with '.md', a title, a path
\* with its folder, and the name of no note.
ResolveTargets ==
    {<<"b">>, <<"b">> \o DotMd, <<"c">>, <<"c">> \o DotMd, <<"Q">>,
     <<"d", "/", "c">>, <<"z">>}

\* The fixture of the repository's tests of KnowledgeGraphService (testNotes), the
\* content of each note cut to one character.
TestNotes ==
    << [path |-> <<"n", "o", "t", "e", "1", ".", "m", "d">>,
        title |-> <<"N", "o", "t", "e", " ", "1">>,
        content |-> <<"x">>,
        tags |-> Some(<<<<"t", "a", "g", "1">>, <<"t", "a", "g", "2">>>>),
        links |-> Some(<<link(<<"n", "o", "t", "e", "1", ".", "m", "d">>, <<"n", "o", "t", "e", "2">>, "internal")>>),
        backlinks |-> None],
       [path |-> <<"n", "o", "t", "e", "2", ".", "m", "d">>,
        title |-> <<"N", "o", "t", "e", " ", "2">>,
        content |-> <<"x">>,
        tags |-> Some(<<<<"t", "a", "g", "2">>, <<"t", "a", "g", "3">>>>),
        links |-> Some(<<link(<<"n", "o", "t", "e", "2", ".", "m", "d">>, <<"n", "o", "t", "e", "3">>, "internal")>>),
        backlinks |-> None],
       [path |-> <<"n", "o", "t", "e", "3", ".", "m", "d">>,
        title |-> <<"N", "o", "t", "e", " ", "3">>,
        content |-> <<"x">>,
        tags |-> Some(<<<<"t", "a", "g", "3">>>>),
        links |-> None,
        backlinks |-> None],
       [path |-> <<"o", "r", "p", "h", "a", "n", ".", "m", "d">>,
        title |-> <<"O", "r", "p", "h", "a", "n">>,
        content |-> <<"x">>,
        tags |-> Some(<<>>),
        links |-> None,
        backlinks |-> None] >>

\* The sub-arrays of the fixture, in its order.
RECURSIVE subArrays(_)
subArrays(arr) ==
    IF arr = <<>> THEN {<<>>}
    ELSE LET rest == subArrays(Tail(arr))
         IN  rest \cup {<<Head(arr)>> \o r : r \in rest}

TestInputs(fixture) == subArrays(fixture)

\* An id that is the path of no note of any family.
UnknownId == <<"z">> \o DotMd

\* The name of b.md as a link gives it, [[b]]: the path of no note either.
BareId == <<"b">>

QueryIds == keys(notes) \cup {UnknownId}

\* The ids getRelatedNotes and suggestRelatedNotes are asked about.
StartIds == QueryIds \cup {BareId}

\* limit: 5 when the caller gives none.
DefaultLimit == 5

Limits == 0..MaxLimit \cup {DefaultLimit}

---------------------------------------------------------------------------
(* Operations.                                                             *)

NewService == [op |-> "new"]

\* The tool calls of the model.
Calls == {1, 2}

NoCall == [pc |-> "idle"]

NoRun == [pc |-> "idle"]

\* No vault on disk, no tool call sent, no operation in progress.
Quiet ==
    /\ files = <<>>
    /\ notesCache = <<>>
    /\ calls = [c \in Calls |-> NoCall]
    /\ run = NoRun

\* this.resolveNotePath(link.target), as buildGraph, getRelatedNotes and findPath
\* call it.
ResolveNotePath ==
    \E linkTarget \in ResolveTargets :
        /\ result' = [op |-> "resolveNotePath", linkTarget |-> linkTarget,
                      value |-> resolveNotePath(notes, linkTarget)]
        /\ UNCHANGED <<input, notes, files, notesCache, calls, run>>

\* The caller comes by another array: the next getAllNotes of a tool handler, the
\* next fixture of a test.
TakeArray ==
    /\ input' \in UpdateInputs(MaxUpdateNotes)
    /\ UNCHANGED <<notes, result, files, notesCache, calls, run>>

\* Mutant of UpdateNotes: the Map is not cleared before the array is set.
UpdateNotesWithoutClear ==
    /\ notes' = setAll(notes, input)
    /\ result' = [op |-> "updateNotes"]
    /\ UNCHANGED <<input, files, notesCache, calls, run>>

\* this.knowledgeGraph.updateNotes(notesResult.data)
UpdateNotes ==
    /\ notes' = updateNotes(input)
    /\ result' = [op |-> "updateNotes"]
    /\ UNCHANGED <<input, files, notesCache, calls, run>>

\* Mutant of BuildGraph: the values of the Map are visited in insertion order or in
\* the reverse of it, as a container without a defined iteration order might.
BuildGraphInSomeOrder ==
    /\ \E ns \in {notes, [i \in 1..Len(notes) |-> notes[Len(notes) + 1 - i]]} :
           result' = [op |-> "buildGraph", value |-> buildGraph(ns)]
    /\ UNCHANGED <<input, notes, files, notesCache, calls, run>>

BuildGraph ==
    /\ result' = [op |-> "buildGraph", value |-> buildGraph(notes)]
    /\ UNCHANGED <<input, notes, files, notesCache, calls, run>>

GetRelatedNotes ==
    \E notePath \in StartIds, maxDepth \in 0..MaxDepth :
        /\ result' = [op |-> "getRelatedNotes", notePath |-> notePath,
                      maxDepth |-> maxDepth,
                      value |-> getRelatedNotes(notes, notePath, maxDepth)]
        /\ UNCHANGED <<input, notes, files, notesCache, calls, run>>

FindPath ==
    \E fromPath \in QueryIds, toPath \in QueryIds :
        /\ result' = [op |-> "findPath", fromPath |-> fromPath, toPath |-> toPath,
                      value |-> findPath(notes, fromPath, toPath)]
        /\ UNCHANGED <<input, notes, files, notesCache, calls, run>>

\* Mutant of AnalyzeGraph: the notes found to be orphans are deleted from the Map.
AnalyzeGraphDropsOrphans ==
    /\ result' = [op |-> "analyzeGraph", value |-> analyzeGraph(notes)]
    /\ notes' = SelectSeq(notes, LAMBDA n : linkCount(n) # 0)
    /\ UNCHANGED <<input, files, notesCache, calls, run>>

AnalyzeGraph ==
    /\ result' = [op |-> "analyzeGraph", value |-> analyzeGraph(notes)]
    /\ UNCHANGED <<input, notes, files, notesCache, calls, run>>

SuggestRelatedNotes ==
    \E notePath \in StartIds, limit \in Limits :
        /\ result' = [op |-> "suggestRelatedNotes", notePath |-> notePath,
                      limit |-> limit,
                      value |-> suggestRelatedNotes(notes, notePath, limit)]
        /\ UNCHANGED <<input, notes, files, notesCache, calls, run>>

\* The tags of the snapshot, and one no note has.
QueryTags ==
    UNION {IF IsSome(notes[i].tags) THEN SeqToSet(Val(notes[i].tags)) ELSE {} :
               i \in 1..Len(notes)}
        \cup {<<"z">>}

\* The folders of the snapshot, and one no note is in.
QueryFolders == {getFolder(notes[i].path) : i \in 1..Len(notes)} \cup {<<"z">>}

GetNotesByTag ==
    \E tag \in QueryTags :
        /\ result' = [op |-> "getNotesByTag", tag |-> tag,
                      value |-> getNotesByTag(notes, tag)]
        /\ UNCHANGED <<input, notes, files, notesCache, calls, run>>

GetNotesByFolder ==
    \E folder \in QueryFolders :
        /\ result' = [op |-> "getNotesByFolder", folder |-> folder,
                      value |-> getNotesByFolder(notes, folder)]
        /\ UNCHANGED <<input, notes, files, notesCache, calls, run>>

GetAllTags ==
    /\ result' = [op |-> "getAllTags", value |-> getAllTags(notes)]
    /\ UNCHANGED <<input, notes, files, notesCache, calls, run>>

---------------------------------------------------------------------------
(* The graph tools of the server: one KnowledgeGraphService for all vaults. *)

Tools == {"get_knowledge_graph", "get_related_notes", "analyze_graph", "suggest_links"}

\* Two configured vaults, as their connectors return them from getAllNotes: in
\* the first a.md links to b.md, in the second b.md links to a.md and d/c.md to
\* b.md.
VaultNotes ==
    [one |-> withBacklinks(<<parsedNote(LinkFiles[1], << <<"b">> >>),
                             parsedNote(LinkFiles[2], <<>>)>>),
     two |-> withBacklinks(<<parsedNote(LinkFiles[1], <<>>),
                             parsedNote(LinkFiles[2], << <<"a">> >>),
                             parsedNote(LinkFiles[3], << <<"b">> >>)>>)]

Vaults == DOMAIN VaultNotes

\* A vault name with no connector.
UnknownVault == "none"

\* (args?.maxDepth as number) || 2
DefaultDepth == 2

\* The query a tool runs on the shared service; maxDepth and limit are left out
\* of the request, so their defaults apply.
answer(tool, ns, path) ==
    CASE tool = "get_knowledge_graph" -> buildGraph(ns)
      [] tool = "get_related_notes" -> getRelatedNotes(ns, path, DefaultDepth)
      [] tool = "analyze_graph" -> analyzeGraph(ns)
      [] tool = "suggest_links" -> suggestRelatedNotes(ns, path, DefaultLimit)

\* The handler is entered with a request and runs to its await: connectors.get,
\* the throw for an unknown vault, connector.getAllNotes().
Dispatch(c) ==
    /\ calls[c].pc = "idle"
    /\ \E tool \in Tools, vault \in Vaults \cup {UnknownVault},
          path \in {LinkFiles[1].path, LinkFiles[2].path} :
           calls' = [calls EXCEPT ![c] =
                        [pc |-> IF vault \in Vaults THEN "awaiting" ELSE "failed",
                         tool |-> tool, vault |-> vault, path |-> path]]
    /\ UNCHANGED <<input, notes, result, files, notesCache, run>>

\* getAllNotes settles: with the notes of the vault, or without success.
Settle(c) ==
    /\ calls[c].pc = "awaiting"
    /\ \E success \in BOOLEAN :
           calls' = [calls EXCEPT ![c] =
                        [pc |-> "settled", tool |-> calls[c].tool,
                         vault |-> calls[c].vault, path |-> calls[c].path,
                         success |-> success,
                         data |-> IF success THEN VaultNotes[calls[c].vault] ELSE <<>>]]
    /\ UNCHANGED <<input, notes, result, files, notesCache, run>>

\* Mutant of Resume: the handler yields between updateNotes and its query.
ResumeYielding(c) ==
    \/ /\ calls[c].pc = "settled"
       /\ calls[c].success
       /\ notes' = updateNotes(calls[c].data)
       /\ calls' = [calls EXCEPT ![c].pc = "updated"]
       /\ UNCHANGED <<input, result, files, notesCache, run>>
    \/ /\ calls[c].pc = "settled"
       /\ ~calls[c].success
       /\ calls' = [calls EXCEPT ![c].pc = "failed"]
       /\ UNCHANGED <<input, notes, result, files, notesCache, run>>
    \/ /\ calls[c].pc = "updated"
       /\ calls' = [calls EXCEPT ![c] =
                       [pc |-> "done", tool |-> calls[c].tool, vault |-> calls[c].vault,
                        path |-> calls[c].path, data |-> calls[c].data,
                        value |-> answer(calls[c].tool, notes, calls[c].path)]]
       /\ UNCHANGED <<input, notes, result, files, notesCache, run>>

\* The handler continues after its await and runs to its return or throw, with no
\* further await: updateNotes(notesResult.data), the query, the response.
Resume(c) ==
    /\ calls[c].pc = "settled"
    /\ IF calls[c].success
       THEN /\ notes' = updateNotes(calls[c].data)
            /\ calls' = [calls EXCEPT ![c] =
                            [pc |-> "done", tool |-> calls[c].tool,
                             vault |-> calls[c].vault, path |-> calls[c].path,
                             data |-> calls[c].data,
                             value |-> answer(calls[c].tool, notes', calls[c].path)]]
       ELSE /\ calls' = [calls EXCEPT ![c].pc = "failed"]
            /\ UNCHANGED notes
    /\ UNCHANGED <<input, result, files, notesCache, run>>

\* The response, or the error, has been sent; the next request may come.
Respond(c) ==
    /\ calls[c].pc \in {"done", "failed"}
    /\ calls' = [calls EXCEPT ![c] = NoCall]
    /\ UNCHANGED <<input, notes, result, files, notesCache, run>>

---------------------------------------------------------------------------
(* findPath and getRelatedNotes, statement by statement.                   *)

Running == {"findPath", "getRelatedNotes"}

\* findPath is entered: the queue holds the start, visited is empty.
StartFindPath ==
    /\ run.pc \notin Running
    /\ \E fromPath \in QueryIds, toPath \in QueryIds :
           run' = [pc |-> "findPath", fromPath |-> fromPath, toPath |-> toPath,
                   queue |-> <<[path |-> fromPath, route |-> <<fromPath>>]>>,
                   visited |-> {}, expanded |-> <<>>]
    /\ UNCHANGED <<input, notes, result, files, notesCache, calls>>

returned(op, value) == [pc |-> "returned", op |-> op, value |-> value]

\* Mutant of FindPathStep: the note taken from the queue is not added to visited.
FindPathStepUnmarked ==
    /\ run.pc = "findPath"
    /\ IF run.queue = <<>>
       THEN run' = returned([op |-> "findPath", fromPath |-> run.fromPath,
                             toPath |-> run.toPath], None)
       ELSE LET path == Head(run.queue).path
                route == Head(run.queue).route
                rest == Tail(run.queue)
            IN  IF path = run.toPath
                THEN run' = returned([op |-> "findPath", fromPath |-> run.fromPath,
                                      toPath |-> run.toPath], Some(route))
                ELSE IF path \in run.visited
                THEN run' = [run EXCEPT !.queue = rest]
                ELSE IF ~has(notes, path)
                THEN run' = [run EXCEPT !.queue = rest]
                ELSE LET note == get(notes, path)
                     IN  run' = [run EXCEPT
                                    !.queue = IF IsSome(note.links)
                                              THEN pushLinks(notes, Val(note.links), route,
                                                             run.visited, rest)
                                              ELSE rest,
                                    !.expanded = Append(@, path)]
    /\ UNCHANGED <<input, notes, result, files, notesCache, calls>>

\* One test of the while loop of findPath and, the queue not being empty, one
\* pass through its body.
FindPathStep ==
    /\ run.pc = "findPath"
    /\ IF run.queue = <<>>
       THEN run' = returned([op |-> "findPath", fromPath |-> run.fromPath,
                             toPath |-> run.toPath], None)
       ELSE LET path == Head(run.queue).path
                route == Head(run.queue).route
                rest == Tail(run.queue)
                visited1 == run.visited \cup {path}
            IN  IF path = run.toPath
                THEN run' = returned([op |-> "findPath", fromPath |-> run.fromPath,
                                      toPath |-> run.toPath], Some(route))
                ELSE IF path \in run.visited
                THEN run' = [run EXCEPT !.queue = rest]
                ELSE IF ~has(notes, path)
                THEN run' = [run EXCEPT !.queue = rest, !.visited = visited1]
                ELSE LET note == get(notes, path)
                     IN  run' = [run EXCEPT
                                    !.queue = IF IsSome(note.links)
                                              THEN pushLinks(notes, Val(note.links), route,
                                                             visited1, rest)
                                              ELSE rest,
                                    !.visited = visited1,
                                    !.expanded = Append(@, path)]
    /\ UNCHANGED <<input, notes, result, files, notesCache, calls>>

\* getRelatedNotes is entered: traverse(notePath, 0) is the one call to make.
StartGetRelatedNotes ==
    /\ run.pc \notin Running
    /\ \E notePath \in StartIds, maxDepth \in 0..DefaultDepth :
           run' = [pc |-> "getRelatedNotes", notePath |-> notePath,
                   maxDepth |-> maxDepth,
                   stack |-> <<[path |-> notePath, depth |-> 0]>>,
                   visited |-> {}, related |-> <<>>, expanded |-> <<>>]
    /\ UNCHANGED <<input, notes, result, files, notesCache, calls>>

\* One call of traverse up to its first recursive call: the calls it is going to
\* make, in their order, go before those its callers still have to make. With no
\* call left, getRelatedNotes returns.
TraverseStep ==
    /\ run.pc = "getRelatedNotes"
    /\ IF run.stack = <<>>
       THEN LET found == SelectSeq(run.related, LAMBDA p : has(notes, p))
            IN  run' = returned([op |-> "getRelatedNotes", notePath |-> run.notePath,
                                 maxDepth |-> run.maxDepth],
                                [i \in 1..Len(found) |-> get(notes, found[i])])
       ELSE LET path == Head(run.stack).path
                depth == Head(run.stack).depth
                rest == Tail(run.stack)
            IN  IF depth > run.maxDepth \/ path \in run.visited
                THEN run' = [run EXCEPT !.stack = rest]
                ELSE IF ~has(notes, path)
                THEN run' = [run EXCEPT !.stack = rest, !.visited = @ \cup {path}]
                ELSE LET next == neighbours(notes, get(notes, path))
                     IN  run' = [run EXCEPT
                                    !.stack = [i \in 1..Len(next) |->
                                                  [path |-> next[i], depth |-> depth + 1]]
                                              \o rest,
                                    !.visited = @ \cup {path},
                                    !.related = IF depth > 0 THEN Append(@, path) ELSE @,
                                    !.expanded = Append(@, path)]
    /\ UNCHANGED <<input, notes, result, files, notesCache, calls>>

\* updateNotes is not called while a query runs: the service has one thread.
UpdateNotesBetweenRuns == run.pc \notin Running /\ UpdateNotes

---------------------------------------------------------------------------
(* LocalConnector: the files of a vault and the cache of their notes.       *)

\* The files a connector is asked about, a.md and b.md, and what a note may
\* link to: [[b]] and [[a.md]].
CacheFiles == SubSeq(LinkFiles, 1, Len(LinkFiles) - 1)

CacheTargets == {<<"b">>, <<"a">> \o DotMd}

CachePaths == {CacheFiles[i].path : i \in 1..Len(CacheFiles)}

\* The files of a vault as parseNote reads them: each of CacheFiles there or
\* not, with at most MaxCacheLinks links.
RECURSIVE cacheTails(_)
cacheTails(i) ==
    IF i > Len(CacheFiles) THEN {<<>>}
    ELSE UNION {{rest, <<parsedNote(CacheFiles[i], targets)>> \o rest} :
                    targets \in SeqsUpTo(CacheTargets, MaxCacheLinks),
                    rest \in cacheTails(i + 1)}

CacheVaults == cacheTails(1)

\* fs.writeFile: the file is created or replaced; glob lists the files in the
\* order of their names.
writeFile(fs, note) ==
    LET listed == SelectSeq(CacheFiles, LAMBDA f : has(fs, f.path) \/ f.path = note.path)
    IN  [i \in 1..Len(listed) |->
            IF listed[i].path = note.path THEN note ELSE get(fs, listed[i].path)]

\* fs.unlink, and Map.prototype.delete.
without(ns, path) == SelectSeq(ns, LAMBDA n : n.path # path)

\* refreshCache: the Map is cleared, every file is parsed and set, then every
\* note gets its backlinks.
refreshCache(fs) == withBacklinks(setAll(<<>>, fs))

\* The body of getNote and of handleFileChange after the file is read: the note
\* is parsed, gets the backlinks the cache gives it, and is set in the cache.
cacheNote(cache, file) ==
    mapSet(cache, [file EXCEPT !.backlinks = Some(getBacklinks(cache, file.path))])

ok(data) == [success |-> TRUE, data |-> data]

failure == [success |-> FALSE]

\* initialize: the watcher is set up and the cache is loaded.
Initialize ==
    /\ result.op = "new"
    /\ notesCache' = refreshCache(files)
    /\ result' = [op |-> "initialize", value |-> [success |-> TRUE]]
    /\ UNCHANGED <<input, notes, files, calls, run>>

\* getAllNotes: the cache is loaded when it is empty; its values are returned.
GetAllNotes ==
    /\ result.op # "new"
    /\ notesCache' = IF notesCache = <<>> THEN refreshCache(files) ELSE notesCache
    /\ result' = [op |-> "getAllNotes", value |-> ok(notesCache')]
    /\ UNCHANGED <<input, notes, files, calls, run>>

GetNote ==
    /\ result.op # "new"
    /\ \E notePath \in CachePaths :
           IF has(files, notePath)
           THEN /\ notesCache' = cacheNote(notesCache, get(files, notePath))
                /\ result' = [op |-> "getNote", notePath |-> notePath,
                              value |-> ok(get(notesCache', notePath))]
           ELSE /\ result' = [op |-> "getNote", notePath |-> notePath, value |-> failure]
                /\ UNCHANGED notesCache
    /\ UNCHANGED <<input, notes, files, calls, run>>

\* createNote and updateNote: the file is written, then read back by getNote.
WriteNote ==
    /\ result.op # "new"
    /\ \E i \in 1..Len(CacheFiles), targets \in SeqsUpTo(CacheTargets, MaxCacheLinks),
          op \in {"createNote", "updateNote"} :
           /\ files' = writeFile(files, parsedNote(CacheFiles[i], targets))
           /\ notesCache' = cacheNote(notesCache, get(files', CacheFiles[i].path))
           /\ result' = [op |-> op, notePath |-> CacheFiles[i].path,
                         value |-> ok(get(notesCache', CacheFiles[i].path))]
    /\ UNCHANGED <<input, notes, calls, run>>

DeleteNote ==
    /\ result.op # "new"
    /\ \E notePath \in CachePaths :
           IF has(files, notePath)
           THEN /\ files' = without(files, notePath)
                /\ notesCache' = without(notesCache, notePath)
                /\ result' = [op |-> "deleteNote", notePath |-> notePath,
                              value |-> [success |-> TRUE]]
           ELSE /\ result' = [op |-> "deleteNote", notePath |-> notePath,
                              value |-> failure]
                /\ UNCHANGED <<files, notesCache>>
    /\ UNCHANGED <<input, notes, calls, run>>

\* A file is written or removed by another program, Obsidian for one.
EditOutside ==
    /\ \/ \E i \in 1..Len(CacheFiles), targets \in SeqsUpTo(CacheTargets, MaxCacheLinks) :
              files' = writeFile(files, parsedNote(CacheFiles[i], targets))
       \/ \E notePath \in CachePaths :
              has(files, notePath) /\ files' = without(files, notePath)
    /\ UNCHANGED <<input, notes, result, notesCache, calls, run>>

\* The watcher's 'change' event for a file that is there.
HandleFileChange ==
    /\ result.op # "new"
    /\ \E filePath \in CachePaths :
           /\ has(files, filePath)
           /\ notesCache' = cacheNote(notesCache, get(files, filePath))
           /\ result' = [op |-> "handleFileChange", filePath |-> filePath]
    /\ UNCHANGED <<input, notes, files, calls, run>>

\* The watcher's 'unlink' event for a file that is gone.
HandleFileDelete ==
    /\ result.op # "new"
    /\ \E filePath \in CachePaths :
           /\ ~has(files, filePath)
           /\ notesCache' = without(notesCache, filePath)
           /\ result' = [op |-> "handleFileDelete", filePath |-> filePath]
    /\ UNCHANGED <<input, notes, files, calls, run>>

---------------------------------------------------------------------------
(* Specifications: a new service, and an array drawn from one family.      *)

\* Mutant of Init: the service is constructed with the caller's array installed.
InitWithNotes ==
    /\ input \in TestInputs(TestNotes)
    /\ notes = updateNotes(input)
    /\ result = NewService
    /\ Quiet

Init ==
    /\ input \in TestInputs(TestNotes)
    /\ notes = <<>>
    /\ result = NewService
    /\ Quiet

Next ==
    \/ UpdateNotes
    \/ BuildGraph
    \/ GetRelatedNotes
    \/ FindPath
    \/ AnalyzeGraph
    \/ SuggestRelatedNotes
    \/ GetNotesByTag
    \/ GetNotesByFolder
    \/ GetAllTags

Spec == Init /\ [][Next]_vars

InitDeep ==
    /\ input \in DeepInputs(MaxDeepNotes)
    /\ notes = <<>>
    /\ result = NewService
    /\ Quiet

NextDeep == UpdateNotes \/ GetRelatedNotes

SpecDeep == InitDeep /\ [][NextDeep]_vars

InitLinks ==
    /\ input \in LinkInputs(MaxVaultLinks)
    /\ notes = <<>>
    /\ result = NewService
    /\ Quiet

NextPath == UpdateNotes \/ FindPath

SpecPath == InitLinks /\ [][NextPath]_vars

InitGraph ==
    /\ input \in GraphInputs(MaxGraphNotes, MaxGraphItems) \cup LinkInputs(MaxVaultLinks)
    /\ notes = <<>>
    /\ result = NewService
    /\ Quiet

NextGraph == UpdateNotes \/ BuildGraph

SpecGraph == InitGraph /\ [][NextGraph]_vars

InitAnalyze ==
    /\ input \in ManyInputs(MaxManyNotes, MaxManyLinks) \cup LinkInputs(MaxVaultLinks)
    /\ notes = <<>>
    /\ result = NewService
    /\ Quiet

NextAnalyze == UpdateNotes \/ AnalyzeGraph

SpecAnalyze == InitAnalyze /\ [][NextAnalyze]_vars

NextRelated == UpdateNotes \/ GetRelatedNotes

InitRelated ==
    /\ input \in LinkInputs(MaxRelatedLinks)
    /\ notes = <<>>
    /\ result = NewService
    /\ Quiet

SpecRelated == InitRelated /\ [][NextRelated]_vars

InitSuggest ==
    /\ input \in SuggestInputs(MaxSuggestNotes, MaxSuggestTags)
    /\ notes = <<>>
    /\ result = NewService
    /\ Quiet

NextSuggest == UpdateNotes \/ SuggestRelatedNotes

SpecSuggest == InitSuggest /\ [][NextSuggest]_vars

SpecTotals == InitGraph /\ [][NextAnalyze]_vars

InitFewLinks ==
    /\ input \in LinkInputs(MaxFewLinks)
    /\ notes = <<>>
    /\ result = NewService
    /\ Quiet

NextUnknown == UpdateNotes \/ GetRelatedNotes \/ SuggestRelatedNotes

SpecUnknown == InitFewLinks /\ [][NextUnknown]_vars

InitResolve ==
    /\ input \in ResolveInputs(MaxResolveNotes)
    /\ notes = <<>>
    /\ result = NewService
    /\ Quiet

NextResolve == UpdateNotes \/ ResolveNotePath

SpecResolve == InitResolve /\ [][NextResolve]_vars

InitServer ==
    /\ input = <<>>
    /\ notes = <<>>
    /\ result = NewService
    /\ Quiet

NextServer == \E c \in Calls : Dispatch(c) \/ Settle(c) \/ Resume(c) \/ Respond(c)

SpecServer == InitServer /\ [][NextServer]_vars

\* The vaults of the link family that lack its last file, d/c.md.
RunInputs(maxLinks) == {v \in LinkInputs(maxLinks) : Len(v) < Len(LinkFiles)}

InitRun ==
    /\ input \in RunInputs(MaxRunLinks)
    /\ notes = <<>>
    /\ result = NewService
    /\ Quiet

NextRun ==
    \/ UpdateNotesBetweenRuns
    \/ StartFindPath
    \/ FindPathStep
    \/ StartGetRelatedNotes
    \/ TraverseStep

\* A query that has been entered runs on: nothing but its own statements is
\* between it and its return.
SpecRun ==
    /\ InitRun
    /\ [][NextRun]_vars
    /\ WF_vars(FindPathStep)
    /\ WF_vars(TraverseStep)

InitConnector ==
    /\ input = <<>>
    /\ notes = <<>>
    /\ result = NewService
    /\ files \in CacheVaults
    /\ notesCache = <<>>
    /\ calls = [c \in Calls |-> NoCall]
    /\ run = NoRun

NextConnector ==
    \/ Initialize
    \/ GetAllNotes
    \/ GetNote
    \/ WriteNote
    \/ DeleteNote
    \/ EditOutside
    \/ HandleFileChange
    \/ HandleFileDelete

SpecConnector == InitConnector /\ [][NextConnector]_vars

InitUpdates ==
    /\ input \in UpdateInputs(MaxUpdateNotes)
    /\ notes = <<>>
    /\ result = NewService
    /\ Quiet

NextUpdates == TakeArray \/ UpdateNotes \/ GetNotesByTag \/ GetAllTags

SpecUpdates == InitUpdates /\ [][NextUpdates]_vars

---------------------------------------------------------------------------
(* Claims about getRelatedNotes.                                           *)

paths(ns) == [i \in 1..Len(ns) |-> ns[i].path]

relatedSet(ns, notePath, maxDepth) == SeqToSet(paths(getRelatedNotes(ns, notePath, maxDepth)))

\* C1: for every note n of the snapshot and depths d1 <= d2, the notes returned by
\* getRelatedNotes(n.path, d1) are among those returned by getRelatedNotes(n.path, d2).
C1_RelatedGrowsWithDepth ==
    (result.op = "getRelatedNotes" /\ has(notes, result.notePath))
        => \A d2 \in result.maxDepth..MaxDepth :
               SeqToSet(paths(result.value)) \subseteq relatedSet(notes, result.notePath, d2)

\* C5: for a snapshot note n, getRelatedNotes(n.path, 0) is empty and n is in no
\* getRelatedNotes(n.path, d), whatever cycles and self-links lead back to it.
C5_StartNeverRelated ==
    (result.op = "getRelatedNotes" /\ has(notes, result.notePath))
        => /\ result.maxDepth = 0 => result.value = <<>>
           /\ result.notePath \notin SeqToSet(paths(result.value))

\* A traversal of depth 2 or more that found notes, one of which leads back to the
\* start by a link or a backlink.
C5_Witness ==
    /\ result.op = "getRelatedNotes"
    /\ has(notes, result.notePath)
    /\ result.maxDepth >= 2
    /\ \E i \in 1..Len(result.value) :
           result.notePath \in SeqToSet(neighbours(notes, result.value[i]))

---------------------------------------------------------------------------
(* Claims about findPath.                                                  *)

\* u is a snapshot note with an outgoing link whose resolved target is v.
linksTo(ns, u, v) ==
    /\ has(ns, u)
    /\ IsSome(get(ns, u).links)
    /\ \E i \in 1..Len(Val(get(ns, u).links)) :
           resolveNotePath(ns, Val(get(ns, u).links)[i].target) = v

\* Every id some resolved link of some note points to.
linkedIds(ns) ==
    UNION {IF IsSome(ns[i].links)
           THEN {resolveNotePath(ns, Val(ns[i].links)[j].target) :
                     j \in 1..Len(Val(ns[i].links))}
           ELSE {} : i \in 1..Len(ns)}

\* The ids reached from the ids of S by at most n outgoing links.
RECURSIVE within(_, _, _)
within(ns, S, n) ==
    IF n = 0 THEN S
    ELSE within(ns, S \cup {v \in linkedIds(ns) : \E u \in S : linksTo(ns, u, v)}, n - 1)

reachable(ns, fromPath) == within(ns, {fromPath}, Len(ns))

\* C2: a route returned by findPath(from, to) starts with from, ends with to, each
\* element is a snapshot note with a link resolving to the next, and no chain of
\* fewer elements leads from from to to.
C2_RouteIsShortestLinkChain ==
    (result.op = "findPath" /\ IsSome(result.value))
        => LET route == Val(result.value)
           IN  /\ route[1] = result.fromPath
               /\ route[Len(route)] = result.toPath
               /\ \A i \in 1..(Len(route) - 1) : linksTo(notes, route[i], route[i + 1])
               /\ Len(route) >= 2
                      => result.toPath \notin within(notes, {result.fromPath}, Len(route) - 2)

\* A direct route was returned although the first link of from starts a longer chain
\* to the same note.
C2_Witness ==
    /\ result.op = "findPath"
    /\ IsSome(result.value)
    /\ Len(Val(result.value)) = 2
    /\ LET first == resolveNotePath(notes, Val(get(notes, result.fromPath).links)[1].target)
       IN  /\ first # result.toPath
           /\ first # result.fromPath
           /\ linksTo(notes, first, result.toPath)

\* C3: for ids x # y, findPath(x, y) is null when no chain of resolved outgoing links
\* leads from x to y, also when backlinks connect them.
C3_NullWhenNoLinkChain ==
    (/\ result.op = "findPath"
     /\ result.fromPath # result.toPath
     /\ result.toPath \notin reachable(notes, result.fromPath))
        => result.value = None

\* findPath(x, y) returned null for a note x that has a backlink from y.
C3_Witness ==
    /\ result.op = "findPath"
    /\ result.value = None
    /\ has(notes, result.fromPath)
    /\ has(notes, result.toPath)
    /\ IsSome(get(notes, result.fromPath).backlinks)
    /\ \E i \in 1..Len(Val(get(notes, result.fromPath).backlinks)) :
           Val(get(notes, result.fromPath).backlinks)[i].source = result.toPath

\* C4: for a snapshot note x, findPath(x, x) is exactly [x], whatever its links.
C4_PathToSelf ==
    (/\ result.op = "findPath"
     /\ result.fromPath = result.toPath
     /\ has(notes, result.fromPath))
        => result.value = Some(<<result.fromPath>>)

\* findPath(x, x) returned [x] for a note x that links to another note linking back.
C4_Witness ==
    /\ result.op = "findPath"
    /\ result.fromPath = result.toPath
    /\ result.value = Some(<<result.fromPath>>)
    /\ \E v \in keys(notes) \ {result.fromPath} :
           linksTo(notes, result.fromPath, v) /\ linksTo(notes, v, result.fromPath)

---------------------------------------------------------------------------
(* Claims about buildGraph.                                                *)

nodeIds(graph) == {graph.nodes[i].id : i \in 1..Len(graph.nodes)}

nodesOfType(graph, type) == SelectSeq(graph.nodes, LAMBDA n : n.type = type)

edgesOfType(graph, types) == SelectSeq(graph.edges, LAMBDA e : e.type \in types)

LinkTypes == {"internal", "embed", "external"}

\* C6: the note-kind nodes of buildGraph() are in bijection with the notes of the
\* snapshot updateNotes installed: each path is the id of exactly one note node, and
\* every note node's id is a path of the snapshot (which holds the array's paths).
C6_NoteNodesMatchSnapshot ==
    result.op = "buildGraph"
        => LET noteNodes == nodesOfType(result.value, "note")
           IN  /\ \A p \in keys(notes) :
                      Cardinality({i \in 1..Len(noteNodes) : noteNodes[i].id = p}) = 1
               /\ \A i \in 1..Len(noteNodes) : noteNodes[i].id \in keys(notes)
               /\ notes # <<>> => keys(notes) = SeqToSet(paths(input))

\* A graph of two or more notes built from an array that repeats a path, with tag
\* or folder nodes beside the note nodes.
C6_Witness ==
    /\ result.op = "buildGraph"
    /\ Len(notes) >= 2
    /\ Len(input) > Len(notes)
    /\ Len(result.value.nodes) > Len(notes)

tagsOf(ns) ==
    UNION {IF IsSome(ns[i].tags) THEN SeqToSet(Val(ns[i].tags)) ELSE {} : i \in 1..Len(ns)}

foldersOf(ns) == {getFolder(ns[i].path) : i \in 1..Len(ns)} \ {<<>>, RootFolder}

\* C8: the node ids of a graph are pairwise distinct, whatever the paths and tags,
\* and every tag and every folder has exactly one node.
C8_NodeIdsDistinct ==
    result.op = "buildGraph"
        => LET nodes == result.value.nodes
           IN  /\ \A i, j \in 1..Len(nodes) : i # j => nodes[i].id # nodes[j].id
               /\ \A t \in tagsOf(notes) :
                      Cardinality({i \in 1..Len(nodes) :
                                       nodes[i].type = "tag" /\ nodes[i].title = t}) = 1
               /\ \A f \in foldersOf(notes) :
                      Cardinality({i \in 1..Len(nodes) :
                                       nodes[i].type = "folder" /\ nodes[i].title = f}) = 1

---------------------------------------------------------------------------
(* Claims about analyzeGraph.                                              *)

\* |n.links| + |n.backlinks|, an absent list counting as empty.
connectionsOf(note) ==
    (IF note.links = None THEN 0 ELSE Len(note.links[1]))
        + (IF note.backlinks = None THEN 0 ELSE Len(note.backlinks[1]))

indexOf(ns, path) == CHOOSE i \in 1..Len(ns) : ns[i].path = path

\* C9: orphanNotes holds exactly the snapshot notes with no link and no backlink,
\* each once.
C9_OrphansAreTheUnconnected ==
    result.op = "analyzeGraph"
        => LET listed == result.value.orphanNotes
           IN  /\ SeqToSet(listed)
                      = {notes[i].path : i \in {j \in 1..Len(notes) : connectionsOf(notes[j]) = 0}}
               /\ \A i, j \in 1..Len(listed) : i # j => listed[i] # listed[j]

\* An analysis that lists an orphan and leaves out a note that has backlinks only
\* and a note that has links only.
C9_Witness ==
    /\ result.op = "analyzeGraph"
    /\ result.value.orphanNotes # <<>>
    /\ \E i, j \in 1..Len(notes) :
           /\ notes[i].links = None
           /\ LenOrZero(notes[i].backlinks) > 0
           /\ notes[i].path \notin SeqToSet(result.value.orphanNotes)
           /\ LenOrZero(notes[j].links) > 0
           /\ LenOrZero(notes[j].backlinks) = 0
           /\ notes[j].path \notin SeqToSet(result.value.orphanNotes)

\* C10: mostConnectedNodes lists at most 10 notes (all of them when there are fewer),
\* each with its connections, in non-increasing order of connections, notes of equal
\* count in snapshot order, and no note left out has more than a listed one.
C10_MostConnectedIsStableTop10 ==
    result.op = "analyzeGraph"
        => LET top == result.value.mostConnectedNodes
               listed == {top[i].id : i \in 1..Len(top)}
           IN  /\ Len(top) <= 10
               /\ Len(top) = (IF Len(notes) < 10 THEN Len(notes) ELSE 10)
               /\ \A i \in 1..Len(top) :
                      /\ has(notes, top[i].id)
                      /\ top[i].connections = connectionsOf(get(notes, top[i].id))
               /\ \A i, j \in 1..Len(top) :
                      i < j => /\ top[i].id # top[j].id
                               /\ top[i].connections >= top[j].connections
                               /\ top[i].connections = top[j].connections
                                      => indexOf(notes, top[i].id) < indexOf(notes, top[j].id)
               /\ \A p \in keys(notes) \ listed :
                      \A i \in 1..Len(top) :
                          connectionsOf(get(notes, p)) <= top[i].connections

\* An analysis of more than 10 notes: 10 are listed, with different counts among them
\* and two connected notes of equal count, and a note is left out.
C10_Witness ==
    /\ result.op = "analyzeGraph"
    /\ Len(notes) > 10
    /\ Len(result.value.mostConnectedNodes) = 10
    /\ LET top == result.value.mostConnectedNodes
       IN  /\ top[1].connections > top[10].connections
           /\ \E i \in 1..9 : /\ top[i].connections = top[i + 1].connections
                              /\ top[i].connections > 0

---------------------------------------------------------------------------
(* Claims about the totals of analyzeGraph.                                *)

RECURSIVE sum(_)
sum(numbers) == IF numbers = <<>> THEN 0 ELSE Head(numbers) + sum(Tail(numbers))

\* A path with a directory part: some "/" after its first character, and the part
\* before the last "/" is not ".".
inFolder(path) ==
    /\ \E i \in 2..Len(path) : path[i] = "/"
    /\ LET last == CHOOSE i \in 2..Len(path) :
                       path[i] = "/" /\ \A j \in (i + 1)..Len(path) : path[j] # "/"
       IN  SubSeq(path, 1, last - 1) # <<".">>

\* C11: totalNodes is the number of notes of the snapshot, whatever tags and
\* folders they have; totalEdges is the number of edges of buildGraph() on the same
\* snapshot, which is the link edges plus the tagged-with edges plus the in-folder
\* edges: one per link, one per tag of a note, one per note that is in a folder.
C11_TotalsCountNotesAndEdges ==
    result.op = "analyzeGraph"
        => LET graph == buildGraph(notes)
           IN  /\ result.value.totalNodes = Len(notes)
               /\ result.value.totalEdges = Len(graph.edges)
               /\ result.value.totalEdges
                      = Len(edgesOfType(graph, LinkTypes))
                        + Len(edgesOfType(graph, {"tagged-with"}))
                        + Len(edgesOfType(graph, {"in-folder"}))
               /\ result.value.totalEdges
                      = sum([i \in 1..Len(notes) |->
                                (IF notes[i].links = None THEN 0 ELSE Len(notes[i].links[1]))
                                + (IF notes[i].tags = None THEN 0 ELSE Len(notes[i].tags[1]))
                                + (IF inFolder(notes[i].path) THEN 1 ELSE 0)])

\* An analysis of a snapshot whose graph has tag and folder nodes beside the note
\* nodes, and edges of the three sorts.
C11_Witness ==
    /\ result.op = "analyzeGraph"
    /\ Len(notes) >= 2
    /\ LET graph == buildGraph(notes)
       IN  /\ Len(graph.nodes) > Len(notes)
           /\ nodesOfType(graph, "tag") # <<>>
           /\ nodesOfType(graph, "folder") # <<>>
           /\ edgesOfType(graph, LinkTypes) # <<>>
           /\ edgesOfType(graph, {"tagged-with"}) # <<>>
           /\ edgesOfType(graph, {"in-folder"}) # <<>>

---------------------------------------------------------------------------
(* Claims about suggestRelatedNotes.                                       *)

tagSet(note) == IF note.tags = None THEN {} ELSE {note.tags[1][i] : i \in 1..Len(note.tags[1])}

\* The tokens of a title: lowercased, split at whitespace.
tokens(title) == split(toLowerCase(title))

\* The tokens of c's title that are longer than 3 characters and are tokens of n's.
sharedWordCount(n, c) ==
    LET mine == tokens(n.title)
        theirs == tokens(c.title)
    IN  Cardinality({i \in 1..Len(theirs) :
                        /\ Len(theirs[i]) > 3
                        /\ \E j \in 1..Len(mine) : mine[j] = theirs[i]})

expectedScore(n, c) ==
    10 * Cardinality(tagSet(n) \cap tagSet(c))
    + 5 * sharedWordCount(n, c)
    + (IF getFolder(c.path) = getFolder(n.path) THEN 3 ELSE 0)

\* A call on a note of the snapshot with a limit no list can reach.
untruncated ==
    /\ result.op = "suggestRelatedNotes"
    /\ has(notes, result.notePath)
    /\ result.limit >= Len(notes)

\* C12: the untruncated result of suggestRelatedNotes(n.path, k) lists, each once,
\* exactly the other notes of the snapshot whose accumulated score is positive:
\* never n.path, and never an entry whose score is 0 or less.
C12_PositiveScoresOfOtherNotes ==
    untruncated
        => LET n == get(notes, result.notePath)
               list == result.value
           IN  /\ \A i \in 1..Len(list) :
                      /\ list[i].path # n.path
                      /\ list[i].score > 0
                      /\ has(notes, list[i].path)
               /\ \A i, j \in 1..Len(list) : i # j => list[i].path # list[j].path
               /\ {list[i].path : i \in 1..Len(list)}
                      = {notes[i].path : i \in {j \in 1..Len(notes) :
                                                    /\ notes[j].path # n.path
                                                    /\ expectedScore(n, notes[j]) > 0}}

\* An untruncated result that lists one note and leaves out another, which scores
\* 0, on a note that shares its own folder with a listed note.
C12_Witness ==
    /\ untruncated
    /\ result.value # <<>>
    /\ Len(result.value) < Len(notes) - 1
    /\ \E i \in 1..Len(result.value) :
           getFolder(result.value[i].path) = getFolder(result.notePath)

\* The whole ranked list of a call: what it returns when the limit is the number
\* of notes, which no list reaches.
ranked == suggestRelatedNotes(notes, result.notePath, Len(notes))

\* C13: for every note n and every limit k >= 0, suggestRelatedNotes(n.path, k)
\* returns at most k entries, and they are the first k entries of the whole ranked
\* list (all of it when it has fewer than k).
C13_AtMostLimitFirstOfRanked ==
    (result.op = "suggestRelatedNotes" /\ has(notes, result.notePath) /\ result.limit >= 0)
        => /\ Len(result.value) <= result.limit
           /\ Len(result.value) = (IF Len(ranked) < result.limit
                                   THEN Len(ranked) ELSE result.limit)
           /\ \A i \in 1..Len(result.value) : result.value[i] = ranked[i]
           /\ \A i, j \in 1..Len(ranked) : i < j => ranked[i].score >= ranked[j].score

\* A call whose limit cuts the ranked list, which the three passes did not produce
\* in ranked order.
C13_Witness ==
    /\ result.op = "suggestRelatedNotes"
    /\ has(notes, result.notePath)
    /\ result.limit > 0
    /\ Len(result.value) = result.limit
    /\ Len(ranked) > result.limit
    /\ ranked # accumulate(notes, get(notes, result.notePath))

\* The pass that first gives c a score for n: 1 shared tags, 2 title words, 3 folder.
firstPass(n, c) ==
    IF tagSet(n) \cap tagSet(c) # {} THEN 1
    ELSE IF sharedWordCount(n, c) > 0 THEN 2
    ELSE 3

\* C14: the entries suggestRelatedNotes returns are in non-increasing order of
\* score, and of two entries of equal score the first is the one an earlier pass
\* scored first (shared tags, then title words, then folder) or, when the same pass
\* scored both first, the one that comes first in the snapshot.
C14_DescendingTiesInFirstScoredOrder ==
    (result.op = "suggestRelatedNotes" /\ has(notes, result.notePath))
        => LET n == get(notes, result.notePath)
               list == result.value
           IN  \A i, j \in 1..Len(list) :
                   i < j =>
                       /\ list[i].score >= list[j].score
                       /\ list[i].score = list[j].score
                              => LET a == get(notes, list[i].path)
                                     b == get(notes, list[j].path)
                                 IN  \/ firstPass(n, a) < firstPass(n, b)
                                     \/ /\ firstPass(n, a) = firstPass(n, b)
                                        /\ indexOf(notes, a.path) < indexOf(notes, b.path)

\* Two entries of equal score, the first of them later in the snapshot than the
\* second: the tags pass scored it before the words pass scored the other.
C14_Witness ==
    /\ result.op = "suggestRelatedNotes"
    /\ has(notes, result.notePath)
    /\ \E i \in 1..(Len(result.value) - 1) :
           /\ result.value[i].score = result.value[i + 1].score
           /\ indexOf(notes, result.value[i].path) > indexOf(notes, result.value[i + 1].path)

\* C15: for a source note n, the score suggestRelatedNotes gives another note c is
\* 10 for each tag n and c share, plus 5 for each token of c's lowercased,
\* whitespace-split title that is longer than 3 characters and is a token of n's
\* title, plus 3 when c is in n's folder: every entry carries that score, and a
\* note for which it is positive is an entry of the untruncated list.
C15_ScoreIsTagsWordsFolder ==
    (result.op = "suggestRelatedNotes" /\ has(notes, result.notePath))
        => LET n == get(notes, result.notePath)
               list == result.value
           IN  /\ \A i \in 1..Len(list) :
                      /\ has(notes, list[i].path)
                      /\ list[i].score = expectedScore(n, get(notes, list[i].path))
               /\ result.limit >= Len(notes)
                      => \A j \in 1..Len(notes) :
                             (notes[j].path # n.path /\ expectedScore(n, notes[j]) > 0)
                                 => \E i \in 1..Len(list) : list[i].path = notes[j].path

\* An untruncated list with an entry that shares a tag and a title word with the
\* source, next to a note left out although it shares a word of 3 characters.
C15_Witness ==
    /\ untruncated
    /\ LET n == get(notes, result.notePath)
           list == result.value
       IN  /\ \E i \in 1..Len(list) :
                  LET c == get(notes, list[i].path)
                  IN  /\ tagSet(n) \cap tagSet(c) # {}
                      /\ sharedWordCount(n, c) > 0
                      /\ list[i].score >= 15
           /\ \E j \in 1..Len(notes) :
                  /\ notes[j].path # n.path
                  /\ notes[j].path \notin {list[i].path : i \in 1..Len(list)}
                  /\ \E w \in SeqToSet(tokens(notes[j].title)) \cap SeqToSet(tokens(n.title)) :
                         Len(w) = 3

\* The scenario: X with tags t1, t2 and title "Project Plan", Y with tag t2 and
\* title "Project Notes", and the call suggestRelatedNotes('X', 5).
scenarioXY ==
    /\ result.op = "suggestRelatedNotes"
    /\ result.notePath = <<"X">>
    /\ result.limit = 5
    /\ has(notes, <<"X">>)
    /\ has(notes, <<"Y">>)
    /\ get(notes, <<"X">>).title = <<"P", "r", "o", "j", "e", "c", "t", " ", "P", "l", "a", "n">>
    /\ get(notes, <<"Y">>).title = <<"P", "r", "o", "j", "e", "c", "t", " ", "N", "o", "t", "e", "s">>
    /\ tagSet(get(notes, <<"X">>)) = {<<"t", "1">>, <<"t", "2">>}
    /\ tagSet(get(notes, <<"Y">>)) = {<<"t", "2">>}

\* The notes of the snapshot that share no tag and no title word with X.
unrelatedToX ==
    {j \in 1..Len(notes) :
        /\ notes[j].path # <<"X">>
        /\ tagSet(notes[j]) \cap tagSet(get(notes, <<"X">>)) = {}
        /\ SeqToSet(tokens(notes[j].title)) \cap SeqToSet(tokens(get(notes, <<"X">>).title)) = {}}

scoreOf(list, path) == list[CHOOSE i \in 1..Len(list) : list[i].path = path].score

listed(list, path) == \E i \in 1..Len(list) : list[i].path = path

\* C16 as stated: Y is reported with score exactly 15, and a note that shares no tag
\* and no title word with X is not reported.
C16_YScores15 ==
    scenarioXY
        => /\ listed(result.value, <<"Y">>)
           /\ scoreOf(result.value, <<"Y">>) = 15
           /\ \A j \in unrelatedToX : ~listed(result.value, notes[j].path)

\* C16, amended: X and Y are both at the root of the vault, so Y is reported with
\* score 18 (10 for t2, 5 for "project", 3 for the folder); a note that shares no
\* tag and no title word with X is reported with score 3 when it is in X's folder,
\* and is not reported when it is in another folder.
C16_YScores18WithFolder ==
    scenarioXY
        => /\ listed(result.value, <<"Y">>)
           /\ scoreOf(result.value, <<"Y">>) = 18
           /\ \A j \in unrelatedToX :
                  IF getFolder(notes[j].path) = getFolder(<<"X">>)
                  THEN /\ listed(result.value, notes[j].path)
                       /\ scoreOf(result.value, notes[j].path) = 3
                  ELSE ~listed(result.value, notes[j].path)

\* The scenario with a third note that shares nothing with X, in another folder.
C16_Witness ==
    /\ scenarioXY
    /\ \E j \in unrelatedToX : getFolder(notes[j].path) # getFolder(<<"X">>)

---------------------------------------------------------------------------
(* Claims about the order and the repetition of buildGraph.                *)

tagList(note) == IF note.tags = None THEN <<>> ELSE note.tags[1]

linkList(note) == IF note.links = None THEN <<>> ELSE note.links[1]

folderOf(path) ==
    SubSeq(path, 1, (CHOOSE i \in 2..Len(path) :
                        path[i] = "/" /\ \A j \in (i + 1)..Len(path) : path[j] # "/") - 1)

\* What the i-th note of the snapshot adds to the nodes: itself, then a node for
\* each tag no earlier note and no earlier place in its own tags has, then a node
\* for its folder if no earlier note is in it.
nodesAddedBy(ns, i) ==
    LET tags == tagList(ns[i])
        earlierTags == UNION {SeqToSet(tagList(ns[j])) : j \in 1..(i - 1)}
        newTags == {k \in 1..Len(tags) :
                       /\ tags[k] \notin earlierTags
                       /\ \A m \in 1..(k - 1) : tags[m] # tags[k]}
        newFolder == /\ inFolder(ns[i].path)
                     /\ \A j \in 1..(i - 1) :
                            inFolder(ns[j].path) => folderOf(ns[j].path) # folderOf(ns[i].path)
    IN  <<[id |-> ns[i].path, type |-> "note"]>>
        \o [k \in 1..Cardinality(newTags) |->
               [id |-> <<"t", "a", "g", ":">> \o tags[ascending(newTags)[k]], type |-> "tag"]]
        \o (IF newFolder
            THEN <<[id |-> <<"f", "o", "l", "d", "e", "r", ":">> \o folderOf(ns[i].path),
                    type |-> "folder"]>>
            ELSE <<>>)

\* What it adds to the edges: one per link, then one per tag, then one to its folder.
edgesAddedBy(ns, i) ==
    [k \in 1..Len(linkList(ns[i])) |->
        [source |-> ns[i].path,
         target |-> resolveNotePath(ns, linkList(ns[i])[k].target),
         type |-> linkList(ns[i])[k].type]]
    \o [k \in 1..Len(tagList(ns[i])) |->
           [source |-> ns[i].path,
            target |-> <<"t", "a", "g", ":">> \o tagList(ns[i])[k],
            type |-> "tagged-with"]]
    \o (IF inFolder(ns[i].path)
        THEN <<[source |-> ns[i].path,
                target |-> <<"f", "o", "l", "d", "e", "r", ":">> \o folderOf(ns[i].path),
                type |-> "in-folder"]>>
        ELSE <<>>)

inSnapshotOrder(graph, ns) ==
    /\ [i \in 1..Len(graph.nodes) |-> [id |-> graph.nodes[i].id, type |-> graph.nodes[i].type]]
           = flatten([i \in 1..Len(ns) |-> nodesAddedBy(ns, i)])
    /\ [i \in 1..Len(graph.edges) |->
           [source |-> graph.edges[i].source, target |-> graph.edges[i].target,
            type |-> graph.edges[i].type]]
           = flatten([i \in 1..Len(ns) |-> edgesAddedBy(ns, i)])

\* C17: a buildGraph() that follows a buildGraph() with no updateNotes in between
\* returns the same node sequence and the same edge sequence, and every
\* buildGraph() returns, per note in snapshot order, its node, its link edges, its
\* tag nodes and edges, then its folder node and edge.
C17_BuildGraphRepeatsInSnapshotOrder ==
    [][result'.op = "buildGraph"
           => /\ inSnapshotOrder(result'.value, notes')
              /\ result.op = "buildGraph" => result'.value = result.value]_vars

\* A graph of two notes that share a tag, so that the second adds no tag node, one
\* of them in a folder.
C17_Witness ==
    /\ result.op = "buildGraph"
    /\ \E i, j \in 1..Len(notes) :
           /\ i < j
           /\ SeqToSet(tagList(notes[i])) \cap SeqToSet(tagList(notes[j])) # {}
    /\ nodesOfType(result.value, "folder") # <<>>
    /\ Len(nodesOfType(result.value, "tag")) < Len(edgesOfType(result.value, {"tagged-with"}))

---------------------------------------------------------------------------
(* Claims about ids that are not in the snapshot.                          *)

\* C18: for an id that is the path of no note of the snapshot, getRelatedNotes
\* returns the empty list at every depth and suggestRelatedNotes returns the empty
\* list at every limit; both return, neither raises.
C18_UnknownIdGivesEmptyList ==
    (/\ result.op \in {"getRelatedNotes", "suggestRelatedNotes"}
     /\ \A i \in 1..Len(notes) : notes[i].path # result.notePath)
        => result.value = <<>>

\* getRelatedNotes at a depth above 0 on the name a link gives a note, [[b]], when
\* b.md is in the snapshot and has a link or a backlink to another note.
C18_Witness ==
    /\ result.op = "getRelatedNotes"
    /\ result.notePath = <<"b">>
    /\ result.maxDepth > 0
    /\ \E i \in 1..Len(notes) :
           /\ notes[i].path = <<"b", ".", "m", "d">>
           /\ relatedSet(notes, notes[i].path, result.maxDepth) # {}

\* C19: findPath(from, to) returns null, never a route, whenever from or to is the
\* path of no note of the snapshot.
C19_NoneForUnknownIds ==
    (/\ result.op = "findPath"
     /\ \/ \A i \in 1..Len(notes) : notes[i].path # result.fromPath
        \/ \A i \in 1..Len(notes) : notes[i].path # result.toPath)
        => result.value = None

---------------------------------------------------------------------------
(* Claims about a service on which updateNotes was never called.           *)

\* A step from the state construction leaves to the result of an operation other
\* than updateNotes: the first call on the service is a query.
firstCallIsQuery == result.op = "new" /\ result'.op # "updateNotes"

\* A call that raised returned no value.
raised(r) == "value" \notin DOMAIN r

\* C20 as stated: buildGraph, getRelatedNotes, findPath, analyzeGraph and
\* suggestRelatedNotes fail on a service on which updateNotes was never called.
C20_QueryBeforeUpdateFails ==
    [][firstCallIsQuery => raised(result')]_vars

\* C20, amended: on a service on which updateNotes was never called each of the
\* five returns what it returns on an empty snapshot: a graph with no nodes and no
\* edges, no related notes, no route (but the one-element route from an id to
\* itself), an analysis of zeros and empty lists, no suggestions.
C20_QueryBeforeUpdateIsEmpty ==
    [][firstCallIsQuery
           => /\ ~raised(result')
              /\ result'.op = "buildGraph"
                     => result'.value = [nodes |-> <<>>, edges |-> <<>>]
              /\ result'.op = "getRelatedNotes" => result'.value = <<>>
              /\ result'.op = "findPath"
                     => result'.value = (IF result'.fromPath = result'.toPath
                                         THEN <<<<result'.fromPath>>>>
                                         ELSE <<>>)
              /\ result'.op = "analyzeGraph"
                     => result'.value = [totalNodes |-> 0, totalEdges |-> 0,
                                         mostConnectedNodes |-> <<>>,
                                         orphanNotes |-> <<>>]
              /\ result'.op = "suggestRelatedNotes" => result'.value = <<>>]_vars

\* An analysis returned although updateNotes was never called: the Map is empty
\* while the array the caller holds is not.
C20_Witness ==
    /\ result.op = "analyzeGraph"
    /\ notes = <<>>
    /\ input # <<>>

---------------------------------------------------------------------------
(* Claims about the snapshot.                                              *)

\* The last note of an array under a path.
lastWithPath(arr, path) ==
    arr[CHOOSE i \in 1..Len(arr) :
            /\ arr[i].path = path
            /\ \A j \in (i + 1)..Len(arr) : arr[j].path # path]

\* The snapshot holds the notes of an array and no other: one note for each path
\* of the array, the last the array has under it.
holdsExactly(ns, arr) ==
    /\ \A i, j \in 1..Len(ns) : ns[i].path = ns[j].path => i = j
    /\ keys(ns) = keys(arr)
    /\ \A i \in 1..Len(ns) : ns[i] = lastWithPath(arr, ns[i].path)

\* C21: whatever calls went before, a call of updateNotes leaves in the snapshot
\* exactly the notes of its own array, each under its path and the last one of a
\* repeated path; no note of an earlier array stays.
C21_SnapshotIsLastArray ==
    [][result'.op = "updateNotes" /\ (notes' # notes \/ result.op # "updateNotes")
          => holdsExactly(notes', input)]_vars

\* An array with two notes under one path, another note between them, has been
\* installed: the snapshot holds the later of the two and the other note.
C21_Witness ==
    /\ result.op = "updateNotes"
    /\ holdsExactly(notes, input)
    /\ Len(input) = 3
    /\ Len(notes) = 2
    /\ input[1].path = input[3].path
    /\ input[1] # input[3]
    /\ get(notes, input[1].path) = input[3]

\* What a call asked: the operation and its arguments.
asked(r) == [f \in DOMAIN r \ {"value"} |-> r[f]]

Queries ==
    {"buildGraph", "getRelatedNotes", "findPath", "analyzeGraph",
     "suggestRelatedNotes", "getNotesByTag", "getNotesByFolder", "getAllTags"}

\* C22: a query (buildGraph, getRelatedNotes, findPath, analyzeGraph,
\* suggestRelatedNotes, getNotesByTag, getNotesByFolder, getAllTags) leaves the
\* snapshot as it was, and a query asked again returns what it returned before.
C22_QueriesLeaveSnapshot ==
    [][result'.op \in Queries
          => /\ notes' = notes
             /\ asked(result') = asked(result) => result'.value = result.value]_vars

\* A query has answered from a snapshot of several notes, which is still the
\* array last installed.
C22_Witness ==
    /\ result.op = "getAllTags"
    /\ Len(result.value) >= 2
    /\ Len(notes) >= 3
    /\ notes = updateNotes(input)

---------------------------------------------------------------------------
(* Claims about the notes next to a note.                                  *)

\* The notes of the snapshot, other than x, that a link of x resolves to or that
\* a backlink of x comes from.
adjacent(ns, x) ==
    {p \in keys(ns) \ {x.path} :
        \/ \E i \in 1..Len(linkList(x)) : resolveNotePath(ns, linkList(x)[i].target) = p
        \/ /\ x.backlinks # None
           /\ \E i \in 1..Len(x.backlinks[1]) : x.backlinks[1][i].source = p}

\* C24: for a note x of the snapshot, getRelatedNotes(x.path, 1) is exactly the
\* notes of the snapshot other than x that one of x's links resolves to or one of
\* x's backlinks comes from, each once.
C24_DepthOneIsAdjacent ==
    (result.op = "getRelatedNotes" /\ has(notes, result.notePath) /\ result.maxDepth = 1)
        => /\ SeqToSet(result.value) = {get(notes, p) : p \in adjacent(notes, get(notes, result.notePath))}
           /\ \A i, j \in 1..Len(result.value) : result.value[i] = result.value[j] => i = j

\* At depth 1 a note was found by a link only and another by a backlink only.
C24_Witness ==
    /\ result.op = "getRelatedNotes"
    /\ has(notes, result.notePath)
    /\ result.maxDepth = 1
    /\ get(notes, result.notePath).backlinks # None
    /\ LET x == get(notes, result.notePath)
       IN  /\ \E n \in SeqToSet(result.value) :
                  /\ \E i \in 1..Len(linkList(x)) :
                         resolveNotePath(notes, linkList(x)[i].target) = n.path
                  /\ \A i \in 1..Len(x.backlinks[1]) : x.backlinks[1][i].source # n.path
           /\ \E n \in SeqToSet(result.value) :
                  /\ \E i \in 1..Len(x.backlinks[1]) : x.backlinks[1][i].source = n.path
                  /\ \A i \in 1..Len(linkList(x)) :
                         resolveNotePath(notes, linkList(x)[i].target) # n.path

\* The notes of the snapshot reached from those of S by at most d steps, a step
\* going from a note to one adjacent to it.
RECURSIVE near(_, _, _)
near(ns, S, d) ==
    IF d = 0 THEN S
    ELSE near(ns, S \cup UNION {adjacent(ns, get(ns, p)) : p \in S}, d - 1)

\* C25: every note of the snapshot other than the start that a chain of at most d
\* links or backlinks through snapshot notes leads to from the start is among
\* getRelatedNotes(start, d).
C25_NearNotesAreRelated ==
    (result.op = "getRelatedNotes" /\ has(notes, result.notePath))
        => near(notes, {result.notePath}, result.maxDepth) \ {result.notePath}
               \subseteq SeqToSet(paths(result.value))

---------------------------------------------------------------------------
(* Claims about link edges.                                                *)

\* C27: for every note n, the link edges of buildGraph that start at n are one per
\* entry of n.links, in the order of the list, each from n.path to the resolved
\* target of the link, of the link's kind and of weight 1; links of n to the same
\* note give as many edges.
C27_OneEdgePerLink ==
    result.op = "buildGraph"
        => \A i \in 1..Len(notes) :
               SelectSeq(result.value.edges,
                         LAMBDA e : e.source = notes[i].path /\ e.type \in LinkTypes)
                   = [k \in 1..Len(linkList(notes[i])) |->
                         [source |-> notes[i].path,
                          target |-> resolveNotePath(notes, linkList(notes[i])[k].target),
                          type |-> linkList(notes[i])[k].type,
                          weight |-> 1]]

\* A note links twice to the same note in the same way, and the graph has the two
\* equal edges.
C27_Witness ==
    /\ result.op = "buildGraph"
    /\ \E i, j \in 1..Len(result.value.edges) :
           /\ i < j
           /\ result.value.edges[i] = result.value.edges[j]
           /\ result.value.edges[i].type = "internal"
           /\ has(notes, result.value.edges[i].target)

---------------------------------------------------------------------------
(* Claims about orphans and link edges.                                    *)

\* C30: in a snapshot that came from a connector, a note that a link edge of
\* buildGraph() from another note points at is not among the orphanNotes of
\* analyzeGraph().
C30_LinkedNotesAreNoOrphans ==
    result.op = "analyzeGraph"
        => \A i \in 1..Len(notes) :
               (\E k \in 1..Len(buildGraph(notes).edges) :
                    LET e == buildGraph(notes).edges[k]
                    IN  /\ e.type \in LinkTypes
                        /\ e.target = notes[i].path
                        /\ e.source # notes[i].path)
                   => notes[i].path \notin SeqToSet(result.value.orphanNotes)

---------------------------------------------------------------------------
(* Claims about the link resolver.                                         *)

\* t with '.md' added unless t ends with it.
withMd(t) ==
    IF Len(t) >= 3 /\ SubSeq(t, Len(t) - 2, Len(t)) = <<".", "m", "d">>
    THEN t ELSE t \o <<".", "m", "d">>

\* Note i of the snapshot is titled t or lies in a folder under the name N.
matches(ns, i, t, N) ==
    \/ ns[i].title = t
    \/ \E k \in 1..Len(ns[i].path) :
           /\ ns[i].path[k] = "/"
           /\ SubSeq(ns[i].path, k + 1, Len(ns[i].path)) = N

---------------------------------------------------------------------------
(* Claims about tool calls in flight together.                             *)

\* C29: however graph tool calls on different vaults interleave, the result of
\* each is the query on the notes of its own getAllNotes: the updateNotes of no
\* other call comes between a call's updateNotes and its query.
C29_ResultFromOwnNotes ==
    \A c \in Calls :
        calls[c].pc = "done"
            => /\ calls[c].data = VaultNotes[calls[c].vault]
               /\ calls[c].value
                      = answer(calls[c].tool, updateNotes(VaultNotes[calls[c].vault]),
                               calls[c].path)

\* Two calls of the same tool on different vaults have both answered, differently;
\* the snapshot is that of the first call's vault, the second call's answer that
\* of its own.
C29_Witness ==
    /\ calls[1].pc = "done"
    /\ calls[2].pc = "done"
    /\ calls[1].vault # calls[2].vault
    /\ calls[1].tool = calls[2].tool
    /\ calls[1].path = calls[2].path
    /\ calls[1].value # calls[2].value
    /\ notes = updateNotes(VaultNotes[calls[1].vault])

---------------------------------------------------------------------------
(* Claims about termination.                                               *)

\* No note has been expanded twice in the query that runs.
expandedOnce ==
    run.pc \in Running
        => \A i, j \in 1..Len(run.expanded) : run.expanded[i] = run.expanded[j] => i = j

\* The query that returned gave what the method gives.
returnedValue ==
    run.pc = "returned"
        => run.value = (IF run.op.op = "findPath"
                        THEN findPath(notes, run.op.fromPath, run.op.toPath)
                        ELSE getRelatedNotes(notes, run.op.notePath, run.op.maxDepth))

\* C28: on every snapshot, with cycles, self-links and links to no note,
\* getRelatedNotes and findPath return: no note is expanded twice in a call, and
\* the queue of findPath, which may hold an id several times, runs empty unless
\* the target is met first.
C28_QueriesTerminate ==
    /\ [](expandedOnce /\ returnedValue)
    /\ (run.pc \in Running) ~> (run.pc = "returned")

\* findPath is running towards a note of the snapshot, has expanded a note and
\* holds twice in its queue the id of a note that does not exist.
C28_Witness ==
    /\ run.pc = "findPath"
    /\ has(notes, run.toPath)
    /\ Len(run.expanded) = 1
    /\ \E i, j \in 1..Len(run.queue) :
           /\ i < j
           /\ run.queue[i].path = run.queue[j].path
           /\ ~has(notes, run.queue[i].path)

---------------------------------------------------------------------------
(* Claims about the cache of LocalConnector.                               *)

\* The links of the cached notes that name a path, with or without '.md'.
linksNaming(cache, path) ==
    UNION {{l \in SeqToSet(linkList(cache[i])) :
                l.target = path \/ l.target \o <<".", "m", "d">> = path} :
               i \in 1..Len(cache)}

\* C23: whatever refreshes, getNote, createNote, updateNote, deleteNote and watcher
\* events went before, the backlinks of every cached note are the links of the
\* notes now cached that name it: each of them, and no link of a note that has
\* been changed or removed since.
C23_BacklinksInvertCachedLinks ==
    \A i \in 1..Len(notesCache) :
        /\ notesCache[i].backlinks # None
        /\ SeqToSet(notesCache[i].backlinks[1]) = linksNaming(notesCache, notesCache[i].path)

=============================================================================
